---- MODULE Spec2Model ----
(***************************************************************************)
(* Consumption calculator for panel cut-lists (Calculador.py): format      *)
(* resolution by material/thickness with per-row override, areas, sheet     *)
(* counts and yield, grain check, edge-band totals.                         *)
(*                                                                          *)
(* The state machine is one run of the script from line 186 on, one action  *)
(* per step: the processing in the first tab (191-295), the second tab      *)
(* (297-309) and the closing block (359-465), which repeats the statements  *)
(* of the first tab and is entered only when no piece table was processed.  *)
(*                                                                          *)
(* Representation.                                                          *)
(*  - A Python str is the sequence of its code points.                      *)
(*  - A nullable cell (NaN / empty) is <<>>, a present value v is <<v>>.    *)
(*  - A float64 is [cls, s, m, e]: cls "num" is (-1)^s * m * 2^e with m a   *)
(*    53-bit integer held in 15-bit limbs (least significant first), or     *)
(*    zero (m = <<>>); cls "nan" is NaN and cls "na" is pd.NA.  Arithmetic  *)
(*    rounds to nearest-even as IEEE-754 binary64 does.  0.0 and -0.0 are   *)
(*    one value: every use here (> 0, == 0, group keys) treats them alike.  *)
(*  - Espesor_mm is held in tenths of a millimetre (15 mm is 150); the      *)
(*    program only tests it for equality and orders it.                     *)
(*  - Lengths in mm are integers; their products stay below 2^31, so the    *)
(*    integer product equals the int64/float64 product of the program.      *)
(***************************************************************************)
EXTENDS Integers, Sequences, FiniteSets, TLC

\* ------------------------------------------------------------------ bounds
MaxPiezas == 2
MaxFormatos == 2
MaxCantos == 3

\* ----------------------------------------------------------------- strings
\* characters str.strip() removes: the code points for which str.isspace() holds
Whitespace ==
    {9, 10, 11, 12, 13, 28, 29, 30, 31, 32, 133, 160, 5760, 8192, 8193, 8194, 8195, 8196, 8197, 8198, 8199, 8200, 8201, 8202, 8232, 8233, 8239, 8287, 12288}

\* the code points str.upper() changes, in increasing order ...
UpperFrom == <<
    97, 98, 99, 100, 101, 102, 103, 104, 105, 106, 107, 108, 109, 110, 111, 112, 113, 114, 115,
    116, 117, 118, 119, 120, 121, 122, 181, 223, 224, 225, 226, 227, 228, 229, 230, 231, 232,
    233, 234, 235, 236, 237, 238, 239, 240, 241, 242, 243, 244, 245, 246, 248, 249, 250, 251,
    252, 253, 254, 255, 257, 259, 261, 263, 265, 267, 269, 271, 273, 275, 277, 279, 281, 283,
    285, 287, 289, 291, 293, 295, 297, 299, 301, 303, 305, 307, 309, 311, 314, 316, 318, 320,
    322, 324, 326, 328, 329, 331, 333, 335, 337, 339, 341, 343, 345, 347, 349, 351, 353, 355,
    357, 359, 361, 363, 365, 367, 369, 371, 373, 375, 378, 380, 382, 383, 384, 387, 389, 392,
    396, 402, 405, 409, 410, 414, 417, 419, 421, 424, 429, 432, 436, 438, 441, 445, 447, 453,
    454, 456, 457, 459, 460, 462, 464, 466, 468, 470, 472, 474, 476, 477, 479, 481, 483, 485,
    487, 489, 491, 493, 495, 496, 498, 499, 501, 505, 507, 509, 511, 513, 515, 517, 519, 521,
    523, 525, 527, 529, 531, 533, 535, 537, 539, 541, 543, 547, 549, 551, 553, 555, 557, 559,
    561, 563, 572, 575, 576, 578, 583, 585, 587, 589, 591, 592, 593, 594, 595, 596, 598, 599,
    601, 603, 604, 608, 609, 611, 613, 614, 616, 617, 618, 619, 620, 623, 625, 626, 629, 637,
    640, 642, 643, 647, 648, 649, 650, 651, 652, 658, 669, 670, 837, 881, 883, 887, 891, 892,
    893, 912, 940, 941, 942, 943, 944, 945, 946, 947, 948, 949, 950, 951, 952, 953, 954, 955,
    956, 957, 958, 959, 960, 961, 962, 963, 964, 965, 966, 967, 968, 969, 970, 971, 972, 973,
    974, 976, 977, 981, 982, 983, 985, 987, 989, 991, 993, 995, 997, 999, 1001, 1003, 1005,
    1007, 1008, 1009, 1010, 1011, 1013, 1016, 1019, 1072, 1073, 1074, 1075, 1076, 1077, 1078,
    1079, 1080, 1081, 1082, 1083, 1084, 1085, 1086, 1087, 1088, 1089, 1090, 1091, 1092, 1093,
    1094, 1095, 1096, 1097, 1098, 1099, 1100, 1101, 1102, 1103, 1104, 1105, 1106, 1107, 1108,
    1109, 1110, 1111, 1112, 1113, 1114, 1115, 1116, 1117, 1118, 1119, 1121, 1123, 1125, 1127,
    1129, 1131, 1133, 1135, 1137, 1139, 1141, 1143, 1145, 1147, 1149, 1151, 1153, 1163, 1165,
    1167, 1169, 1171, 1173, 1175, 1177, 1179, 1181, 1183, 1185, 1187, 1189, 1191, 1193, 1195,
    1197, 1199, 1201, 1203, 1205, 1207, 1209, 1211, 1213, 1215, 1218, 1220, 1222, 1224, 1226,
    1228, 1230, 1231, 1233, 1235, 1237, 1239, 1241, 1243, 1245, 1247, 1249, 1251, 1253, 1255,
    1257, 1259, 1261, 1263, 1265, 1267, 1269, 1271, 1273, 1275, 1277, 1279, 1281, 1283, 1285,
    1287, 1289, 1291, 1293, 1295, 1297, 1299, 1301, 1303, 1305, 1307, 1309, 1311, 1313, 1315,
    1317, 1319, 1321, 1323, 1325, 1327, 1377, 1378, 1379, 1380, 1381, 1382, 1383, 1384, 1385,
    1386, 1387, 1388, 1389, 1390, 1391, 1392, 1393, 1394, 1395, 1396, 1397, 1398, 1399, 1400,
    1401, 1402, 1403, 1404, 1405, 1406, 1407, 1408, 1409, 1410, 1411, 1412, 1413, 1414, 1415,
    4304, 4305, 4306, 4307, 4308, 4309, 4310, 4311, 4312, 4313, 4314, 4315, 4316, 4317, 4318,
    4319, 4320, 4321, 4322, 4323, 4324, 4325, 4326, 4327, 4328, 4329, 4330, 4331, 4332, 4333,
    4334, 4335, 4336, 4337, 4338, 4339, 4340, 4341, 4342, 4343, 4344, 4345, 4346, 4349, 4350,
    4351, 5112, 5113, 5114, 5115, 5116, 5117, 7296, 7297, 7298, 7299, 7300, 7301, 7302, 7303,
    7304, 7545, 7549, 7566, 7681, 7683, 7685, 7687, 7689, 7691, 7693, 7695, 7697, 7699, 7701,
    7703, 7705, 7707, 7709, 7711, 7713, 7715, 7717, 7719, 7721, 7723, 7725, 7727, 7729, 7731,
    7733, 7735, 7737, 7739, 7741, 7743, 7745, 7747, 7749, 7751, 7753, 7755, 7757, 7759, 7761,
    7763, 7765, 7767, 7769, 7771, 7773, 7775, 7777, 7779, 7781, 7783, 7785, 7787, 7789, 7791,
    7793, 7795, 7797, 7799, 7801, 7803, 7805, 7807, 7809, 7811, 7813, 7815, 7817, 7819, 7821,
    7823, 7825, 7827, 7829, 7830, 7831, 7832, 7833, 7834, 7835, 7841, 7843, 7845, 7847, 7849,
    7851, 7853, 7855, 7857, 7859, 7861, 7863, 7865, 7867, 7869, 7871, 7873, 7875, 7877, 7879,
    7881, 7883, 7885, 7887, 7889, 7891, 7893, 7895, 7897, 7899, 7901, 7903, 7905, 7907, 7909,
    7911, 7913, 7915, 7917, 7919, 7921, 7923, 7925, 7927, 7929, 7931, 7933, 7935, 7936, 7937,
    7938, 7939, 7940, 7941, 7942, 7943, 7952, 7953, 7954, 7955, 7956, 7957, 7968, 7969, 7970,
    7971, 7972, 7973, 7974, 7975, 7984, 7985, 7986, 7987, 7988, 7989, 7990, 7991, 8000, 8001,
    8002, 8003, 8004, 8005, 8016, 8017, 8018, 8019, 8020, 8021, 8022, 8023, 8032, 8033, 8034,
    8035, 8036, 8037, 8038, 8039, 8048, 8049, 8050, 8051, 8052, 8053, 8054, 8055, 8056, 8057,
    8058, 8059, 8060, 8061, 8064, 8065, 8066, 8067, 8068, 8069, 8070, 8071, 8072, 8073, 8074,
    8075, 8076, 8077, 8078, 8079, 8080, 8081, 8082, 8083, 8084, 8085, 8086, 8087, 8088, 8089,
    8090, 8091, 8092, 8093, 8094, 8095, 8096, 8097, 8098, 8099, 8100, 8101, 8102, 8103, 8104,
    8105, 8106, 8107, 8108, 8109, 8110, 8111, 8112, 8113, 8114, 8115, 8116, 8118, 8119, 8124,
    8126, 8130, 8131, 8132, 8134, 8135, 8140, 8144, 8145, 8146, 8147, 8150, 8151, 8160, 8161,
    8162, 8163, 8164, 8165, 8166, 8167, 8178, 8179, 8180, 8182, 8183, 8188, 8526, 8560, 8561,
    8562, 8563, 8564, 8565, 8566, 8567, 8568, 8569, 8570, 8571, 8572, 8573, 8574, 8575, 8580,
    9424, 9425, 9426, 9427, 9428, 9429, 9430, 9431, 9432, 9433, 9434, 9435, 9436, 9437, 9438,
    9439, 9440, 9441, 9442, 9443, 9444, 9445, 9446, 9447, 9448, 9449, 11312, 11313, 11314,
    11315, 11316, 11317, 11318, 11319, 11320, 11321, 11322, 11323, 11324, 11325, 11326, 11327,
    11328, 11329, 11330, 11331, 11332, 11333, 11334, 11335, 11336, 11337, 11338, 11339, 11340,
    11341, 11342, 11343, 11344, 11345, 11346, 11347, 11348, 11349, 11350, 11351, 11352, 11353,
    11354, 11355, 11356, 11357, 11358, 11359, 11361, 11365, 11366, 11368, 11370, 11372, 11379,
    11382, 11393, 11395, 11397, 11399, 11401, 11403, 11405, 11407, 11409, 11411, 11413, 11415,
    11417, 11419, 11421, 11423, 11425, 11427, 11429, 11431, 11433, 11435, 11437, 11439, 11441,
    11443, 11445, 11447, 11449, 11451, 11453, 11455, 11457, 11459, 11461, 11463, 11465, 11467,
    11469, 11471, 11473, 11475, 11477, 11479, 11481, 11483, 11485, 11487, 11489, 11491, 11500,
    11502, 11507, 11520, 11521, 11522, 11523, 11524, 11525, 11526, 11527, 11528, 11529, 11530,
    11531, 11532, 11533, 11534, 11535, 11536, 11537, 11538, 11539, 11540, 11541, 11542, 11543,
    11544, 11545, 11546, 11547, 11548, 11549, 11550, 11551, 11552, 11553, 11554, 11555, 11556,
    11557, 11559, 11565, 42561, 42563, 42565, 42567, 42569, 42571, 42573, 42575, 42577, 42579,
    42581, 42583, 42585, 42587, 42589, 42591, 42593, 42595, 42597, 42599, 42601, 42603, 42605,
    42625, 42627, 42629, 42631, 42633, 42635, 42637, 42639, 42641, 42643, 42645, 42647, 42649,
    42651, 42787, 42789, 42791, 42793, 42795, 42797, 42799, 42803, 42805, 42807, 42809, 42811,
    42813, 42815, 42817, 42819, 42821, 42823, 42825, 42827, 42829, 42831, 42833, 42835, 42837,
    42839, 42841, 42843, 42845, 42847, 42849, 42851, 42853, 42855, 42857, 42859, 42861, 42863,
    42874, 42876, 42879, 42881, 42883, 42885, 42887, 42892, 42897, 42899, 42900, 42903, 42905,
    42907, 42909, 42911, 42913, 42915, 42917, 42919, 42921, 42933, 42935, 42937, 42939, 42941,
    42943, 42945, 42947, 42952, 42954, 42961, 42967, 42969, 42998, 43859, 43888, 43889, 43890,
    43891, 43892, 43893, 43894, 43895, 43896, 43897, 43898, 43899, 43900, 43901, 43902, 43903,
    43904, 43905, 43906, 43907, 43908, 43909, 43910, 43911, 43912, 43913, 43914, 43915, 43916,
    43917, 43918, 43919, 43920, 43921, 43922, 43923, 43924, 43925, 43926, 43927, 43928, 43929,
    43930, 43931, 43932, 43933, 43934, 43935, 43936, 43937, 43938, 43939, 43940, 43941, 43942,
    43943, 43944, 43945, 43946, 43947, 43948, 43949, 43950, 43951, 43952, 43953, 43954, 43955,
    43956, 43957, 43958, 43959, 43960, 43961, 43962, 43963, 43964, 43965, 43966, 43967, 64256,
    64257, 64258, 64259, 64260, 64261, 64262, 64275, 64276, 64277, 64278, 64279, 65345, 65346,
    65347, 65348, 65349, 65350, 65351, 65352, 65353, 65354, 65355, 65356, 65357, 65358, 65359,
    65360, 65361, 65362, 65363, 65364, 65365, 65366, 65367, 65368, 65369, 65370, 66600, 66601,
    66602, 66603, 66604, 66605, 66606, 66607, 66608, 66609, 66610, 66611, 66612, 66613, 66614,
    66615, 66616, 66617, 66618, 66619, 66620, 66621, 66622, 66623, 66624, 66625, 66626, 66627,
    66628, 66629, 66630, 66631, 66632, 66633, 66634, 66635, 66636, 66637, 66638, 66639, 66776,
    66777, 66778, 66779, 66780, 66781, 66782, 66783, 66784, 66785, 66786, 66787, 66788, 66789,
    66790, 66791, 66792, 66793, 66794, 66795, 66796, 66797, 66798, 66799, 66800, 66801, 66802,
    66803, 66804, 66805, 66806, 66807, 66808, 66809, 66810, 66811, 66967, 66968, 66969, 66970,
    66971, 66972, 66973, 66974, 66975, 66976, 66977, 66979, 66980, 66981, 66982, 66983, 66984,
    66985, 66986, 66987, 66988, 66989, 66990, 66991, 66992, 66993, 66995, 66996, 66997, 66998,
    66999, 67000, 67001, 67003, 67004, 68800, 68801, 68802, 68803, 68804, 68805, 68806, 68807,
    68808, 68809, 68810, 68811, 68812, 68813, 68814, 68815, 68816, 68817, 68818, 68819, 68820,
    68821, 68822, 68823, 68824, 68825, 68826, 68827, 68828, 68829, 68830, 68831, 68832, 68833,
    68834, 68835, 68836, 68837, 68838, 68839, 68840, 68841, 68842, 68843, 68844, 68845, 68846,
    68847, 68848, 68849, 68850, 71872, 71873, 71874, 71875, 71876, 71877, 71878, 71879, 71880,
    71881, 71882, 71883, 71884, 71885, 71886, 71887, 71888, 71889, 71890, 71891, 71892, 71893,
    71894, 71895, 71896, 71897, 71898, 71899, 71900, 71901, 71902, 71903, 93792, 93793, 93794,
    93795, 93796, 93797, 93798, 93799, 93800, 93801, 93802, 93803, 93804, 93805, 93806, 93807,
    93808, 93809, 93810, 93811, 93812, 93813, 93814, 93815, 93816, 93817, 93818, 93819, 93820,
    93821, 93822, 93823, 125218, 125219, 125220, 125221, 125222, 125223, 125224, 125225,
    125226, 125227, 125228, 125229, 125230, 125231, 125232, 125233, 125234, 125235, 125236,
    125237, 125238, 125239, 125240, 125241, 125242, 125243, 125244, 125245, 125246, 125247,
    125248, 125249, 125250, 125251 >>

\* ... and what each of them becomes (one to three code points)
UpperTo == <<
    <<65>>, <<66>>, <<67>>, <<68>>, <<69>>, <<70>>, <<71>>, <<72>>, <<73>>, <<74>>, <<75>>,
    <<76>>, <<77>>, <<78>>, <<79>>, <<80>>, <<81>>, <<82>>, <<83>>, <<84>>, <<85>>, <<86>>,
    <<87>>, <<88>>, <<89>>, <<90>>, <<924>>, <<83, 83>>, <<192>>, <<193>>, <<194>>, <<195>>,
    <<196>>, <<197>>, <<198>>, <<199>>, <<200>>, <<201>>, <<202>>, <<203>>, <<204>>, <<205>>,
    <<206>>, <<207>>, <<208>>, <<209>>, <<210>>, <<211>>, <<212>>, <<213>>, <<214>>, <<216>>,
    <<217>>, <<218>>, <<219>>, <<220>>, <<221>>, <<222>>, <<376>>, <<256>>, <<258>>, <<260>>,
    <<262>>, <<264>>, <<266>>, <<268>>, <<270>>, <<272>>, <<274>>, <<276>>, <<278>>, <<280>>,
    <<282>>, <<284>>, <<286>>, <<288>>, <<290>>, <<292>>, <<294>>, <<296>>, <<298>>, <<300>>,
    <<302>>, <<73>>, <<306>>, <<308>>, <<310>>, <<313>>, <<315>>, <<317>>, <<319>>, <<321>>,
    <<323>>, <<325>>, <<327>>, <<700, 78>>, <<330>>, <<332>>, <<334>>, <<336>>, <<338>>,
    <<340>>, <<342>>, <<344>>, <<346>>, <<348>>, <<350>>, <<352>>, <<354>>, <<356>>, <<358>>,
    <<360>>, <<362>>, <<364>>, <<366>>, <<368>>, <<370>>, <<372>>, <<374>>, <<377>>, <<379>>,
    <<381>>, <<83>>, <<579>>, <<386>>, <<388>>, <<391>>, <<395>>, <<401>>, <<502>>, <<408>>,
    <<573>>, <<544>>, <<416>>, <<418>>, <<420>>, <<423>>, <<428>>, <<431>>, <<435>>, <<437>>,
    <<440>>, <<444>>, <<503>>, <<452>>, <<452>>, <<455>>, <<455>>, <<458>>, <<458>>, <<461>>,
    <<463>>, <<465>>, <<467>>, <<469>>, <<471>>, <<473>>, <<475>>, <<398>>, <<478>>, <<480>>,
    <<482>>, <<484>>, <<486>>, <<488>>, <<490>>, <<492>>, <<494>>, <<74, 780>>, <<497>>,
    <<497>>, <<500>>, <<504>>, <<506>>, <<508>>, <<510>>, <<512>>, <<514>>, <<516>>, <<518>>,
    <<520>>, <<522>>, <<524>>, <<526>>, <<528>>, <<530>>, <<532>>, <<534>>, <<536>>, <<538>>,
    <<540>>, <<542>>, <<546>>, <<548>>, <<550>>, <<552>>, <<554>>, <<556>>, <<558>>, <<560>>,
    <<562>>, <<571>>, <<11390>>, <<11391>>, <<577>>, <<582>>, <<584>>, <<586>>, <<588>>,
    <<590>>, <<11375>>, <<11373>>, <<11376>>, <<385>>, <<390>>, <<393>>, <<394>>, <<399>>,
    <<400>>, <<42923>>, <<403>>, <<42924>>, <<404>>, <<42893>>, <<42922>>, <<407>>, <<406>>,
    <<42926>>, <<11362>>, <<42925>>, <<412>>, <<11374>>, <<413>>, <<415>>, <<11364>>, <<422>>,
    <<42949>>, <<425>>, <<42929>>, <<430>>, <<580>>, <<433>>, <<434>>, <<581>>, <<439>>,
    <<42930>>, <<42928>>, <<921>>, <<880>>, <<882>>, <<886>>, <<1021>>, <<1022>>, <<1023>>,
    <<921, 776, 769>>, <<902>>, <<904>>, <<905>>, <<906>>, <<933, 776, 769>>, <<913>>, <<914>>,
    <<915>>, <<916>>, <<917>>, <<918>>, <<919>>, <<920>>, <<921>>, <<922>>, <<923>>, <<924>>,
    <<925>>, <<926>>, <<927>>, <<928>>, <<929>>, <<931>>, <<931>>, <<932>>, <<933>>, <<934>>,
    <<935>>, <<936>>, <<937>>, <<938>>, <<939>>, <<908>>, <<910>>, <<911>>, <<914>>, <<920>>,
    <<934>>, <<928>>, <<975>>, <<984>>, <<986>>, <<988>>, <<990>>, <<992>>, <<994>>, <<996>>,
    <<998>>, <<1000>>, <<1002>>, <<1004>>, <<1006>>, <<922>>, <<929>>, <<1017>>, <<895>>,
    <<917>>, <<1015>>, <<1018>>, <<1040>>, <<1041>>, <<1042>>, <<1043>>, <<1044>>, <<1045>>,
    <<1046>>, <<1047>>, <<1048>>, <<1049>>, <<1050>>, <<1051>>, <<1052>>, <<1053>>, <<1054>>,
    <<1055>>, <<1056>>, <<1057>>, <<1058>>, <<1059>>, <<1060>>, <<1061>>, <<1062>>, <<1063>>,
    <<1064>>, <<1065>>, <<1066>>, <<1067>>, <<1068>>, <<1069>>, <<1070>>, <<1071>>, <<1024>>,
    <<1025>>, <<1026>>, <<1027>>, <<1028>>, <<1029>>, <<1030>>, <<1031>>, <<1032>>, <<1033>>,
    <<1034>>, <<1035>>, <<1036>>, <<1037>>, <<1038>>, <<1039>>, <<1120>>, <<1122>>, <<1124>>,
    <<1126>>, <<1128>>, <<1130>>, <<1132>>, <<1134>>, <<1136>>, <<1138>>, <<1140>>, <<1142>>,
    <<1144>>, <<1146>>, <<1148>>, <<1150>>, <<1152>>, <<1162>>, <<1164>>, <<1166>>, <<1168>>,
    <<1170>>, <<1172>>, <<1174>>, <<1176>>, <<1178>>, <<1180>>, <<1182>>, <<1184>>, <<1186>>,
    <<1188>>, <<1190>>, <<1192>>, <<1194>>, <<1196>>, <<1198>>, <<1200>>, <<1202>>, <<1204>>,
    <<1206>>, <<1208>>, <<1210>>, <<1212>>, <<1214>>, <<1217>>, <<1219>>, <<1221>>, <<1223>>,
    <<1225>>, <<1227>>, <<1229>>, <<1216>>, <<1232>>, <<1234>>, <<1236>>, <<1238>>, <<1240>>,
    <<1242>>, <<1244>>, <<1246>>, <<1248>>, <<1250>>, <<1252>>, <<1254>>, <<1256>>, <<1258>>,
    <<1260>>, <<1262>>, <<1264>>, <<1266>>, <<1268>>, <<1270>>, <<1272>>, <<1274>>, <<1276>>,
    <<1278>>, <<1280>>, <<1282>>, <<1284>>, <<1286>>, <<1288>>, <<1290>>, <<1292>>, <<1294>>,
    <<1296>>, <<1298>>, <<1300>>, <<1302>>, <<1304>>, <<1306>>, <<1308>>, <<1310>>, <<1312>>,
    <<1314>>, <<1316>>, <<1318>>, <<1320>>, <<1322>>, <<1324>>, <<1326>>, <<1329>>, <<1330>>,
    <<1331>>, <<1332>>, <<1333>>, <<1334>>, <<1335>>, <<1336>>, <<1337>>, <<1338>>, <<1339>>,
    <<1340>>, <<1341>>, <<1342>>, <<1343>>, <<1344>>, <<1345>>, <<1346>>, <<1347>>, <<1348>>,
    <<1349>>, <<1350>>, <<1351>>, <<1352>>, <<1353>>, <<1354>>, <<1355>>, <<1356>>, <<1357>>,
    <<1358>>, <<1359>>, <<1360>>, <<1361>>, <<1362>>, <<1363>>, <<1364>>, <<1365>>, <<1366>>,
    <<1333, 1362>>, <<7312>>, <<7313>>, <<7314>>, <<7315>>, <<7316>>, <<7317>>, <<7318>>,
    <<7319>>, <<7320>>, <<7321>>, <<7322>>, <<7323>>, <<7324>>, <<7325>>, <<7326>>, <<7327>>,
    <<7328>>, <<7329>>, <<7330>>, <<7331>>, <<7332>>, <<7333>>, <<7334>>, <<7335>>, <<7336>>,
    <<7337>>, <<7338>>, <<7339>>, <<7340>>, <<7341>>, <<7342>>, <<7343>>, <<7344>>, <<7345>>,
    <<7346>>, <<7347>>, <<7348>>, <<7349>>, <<7350>>, <<7351>>, <<7352>>, <<7353>>, <<7354>>,
    <<7357>>, <<7358>>, <<7359>>, <<5104>>, <<5105>>, <<5106>>, <<5107>>, <<5108>>, <<5109>>,
    <<1042>>, <<1044>>, <<1054>>, <<1057>>, <<1058>>, <<1058>>, <<1066>>, <<1122>>, <<42570>>,
    <<42877>>, <<11363>>, <<42950>>, <<7680>>, <<7682>>, <<7684>>, <<7686>>, <<7688>>,
    <<7690>>, <<7692>>, <<7694>>, <<7696>>, <<7698>>, <<7700>>, <<7702>>, <<7704>>, <<7706>>,
    <<7708>>, <<7710>>, <<7712>>, <<7714>>, <<7716>>, <<7718>>, <<7720>>, <<7722>>, <<7724>>,
    <<7726>>, <<7728>>, <<7730>>, <<7732>>, <<7734>>, <<7736>>, <<7738>>, <<7740>>, <<7742>>,
    <<7744>>, <<7746>>, <<7748>>, <<7750>>, <<7752>>, <<7754>>, <<7756>>, <<7758>>, <<7760>>,
    <<7762>>, <<7764>>, <<7766>>, <<7768>>, <<7770>>, <<7772>>, <<7774>>, <<7776>>, <<7778>>,
    <<7780>>, <<7782>>, <<7784>>, <<7786>>, <<7788>>, <<7790>>, <<7792>>, <<7794>>, <<7796>>,
    <<7798>>, <<7800>>, <<7802>>, <<7804>>, <<7806>>, <<7808>>, <<7810>>, <<7812>>, <<7814>>,
    <<7816>>, <<7818>>, <<7820>>, <<7822>>, <<7824>>, <<7826>>, <<7828>>, <<72, 817>>,
    <<84, 776>>, <<87, 778>>, <<89, 778>>, <<65, 702>>, <<7776>>, <<7840>>, <<7842>>, <<7844>>,
    <<7846>>, <<7848>>, <<7850>>, <<7852>>, <<7854>>, <<7856>>, <<7858>>, <<7860>>, <<7862>>,
    <<7864>>, <<7866>>, <<7868>>, <<7870>>, <<7872>>, <<7874>>, <<7876>>, <<7878>>, <<7880>>,
    <<7882>>, <<7884>>, <<7886>>, <<7888>>, <<7890>>, <<7892>>, <<7894>>, <<7896>>, <<7898>>,
    <<7900>>, <<7902>>, <<7904>>, <<7906>>, <<7908>>, <<7910>>, <<7912>>, <<7914>>, <<7916>>,
    <<7918>>, <<7920>>, <<7922>>, <<7924>>, <<7926>>, <<7928>>, <<7930>>, <<7932>>, <<7934>>,
    <<7944>>, <<7945>>, <<7946>>, <<7947>>, <<7948>>, <<7949>>, <<7950>>, <<7951>>, <<7960>>,
    <<7961>>, <<7962>>, <<7963>>, <<7964>>, <<7965>>, <<7976>>, <<7977>>, <<7978>>, <<7979>>,
    <<7980>>, <<7981>>, <<7982>>, <<7983>>, <<7992>>, <<7993>>, <<7994>>, <<7995>>, <<7996>>,
    <<7997>>, <<7998>>, <<7999>>, <<8008>>, <<8009>>, <<8010>>, <<8011>>, <<8012>>, <<8013>>,
    <<933, 787>>, <<8025>>, <<933, 787, 768>>, <<8027>>, <<933, 787, 769>>, <<8029>>,
    <<933, 787, 834>>, <<8031>>, <<8040>>, <<8041>>, <<8042>>, <<8043>>, <<8044>>, <<8045>>,
    <<8046>>, <<8047>>, <<8122>>, <<8123>>, <<8136>>, <<8137>>, <<8138>>, <<8139>>, <<8154>>,
    <<8155>>, <<8184>>, <<8185>>, <<8170>>, <<8171>>, <<8186>>, <<8187>>, <<7944, 921>>,
    <<7945, 921>>, <<7946, 921>>, <<7947, 921>>, <<7948, 921>>, <<7949, 921>>, <<7950, 921>>,
    <<7951, 921>>, <<7944, 921>>, <<7945, 921>>, <<7946, 921>>, <<7947, 921>>, <<7948, 921>>,
    <<7949, 921>>, <<7950, 921>>, <<7951, 921>>, <<7976, 921>>, <<7977, 921>>, <<7978, 921>>,
    <<7979, 921>>, <<7980, 921>>, <<7981, 921>>, <<7982, 921>>, <<7983, 921>>, <<7976, 921>>,
    <<7977, 921>>, <<7978, 921>>, <<7979, 921>>, <<7980, 921>>, <<7981, 921>>, <<7982, 921>>,
    <<7983, 921>>, <<8040, 921>>, <<8041, 921>>, <<8042, 921>>, <<8043, 921>>, <<8044, 921>>,
    <<8045, 921>>, <<8046, 921>>, <<8047, 921>>, <<8040, 921>>, <<8041, 921>>, <<8042, 921>>,
    <<8043, 921>>, <<8044, 921>>, <<8045, 921>>, <<8046, 921>>, <<8047, 921>>, <<8120>>,
    <<8121>>, <<8122, 921>>, <<913, 921>>, <<902, 921>>, <<913, 834>>, <<913, 834, 921>>,
    <<913, 921>>, <<921>>, <<8138, 921>>, <<919, 921>>, <<905, 921>>, <<919, 834>>,
    <<919, 834, 921>>, <<919, 921>>, <<8152>>, <<8153>>, <<921, 776, 768>>, <<921, 776, 769>>,
    <<921, 834>>, <<921, 776, 834>>, <<8168>>, <<8169>>, <<933, 776, 768>>, <<933, 776, 769>>,
    <<929, 787>>, <<8172>>, <<933, 834>>, <<933, 776, 834>>, <<8186, 921>>, <<937, 921>>,
    <<911, 921>>, <<937, 834>>, <<937, 834, 921>>, <<937, 921>>, <<8498>>, <<8544>>, <<8545>>,
    <<8546>>, <<8547>>, <<8548>>, <<8549>>, <<8550>>, <<8551>>, <<8552>>, <<8553>>, <<8554>>,
    <<8555>>, <<8556>>, <<8557>>, <<8558>>, <<8559>>, <<8579>>, <<9398>>, <<9399>>, <<9400>>,
    <<9401>>, <<9402>>, <<9403>>, <<9404>>, <<9405>>, <<9406>>, <<9407>>, <<9408>>, <<9409>>,
    <<9410>>, <<9411>>, <<9412>>, <<9413>>, <<9414>>, <<9415>>, <<9416>>, <<9417>>, <<9418>>,
    <<9419>>, <<9420>>, <<9421>>, <<9422>>, <<9423>>, <<11264>>, <<11265>>, <<11266>>,
    <<11267>>, <<11268>>, <<11269>>, <<11270>>, <<11271>>, <<11272>>, <<11273>>, <<11274>>,
    <<11275>>, <<11276>>, <<11277>>, <<11278>>, <<11279>>, <<11280>>, <<11281>>, <<11282>>,
    <<11283>>, <<11284>>, <<11285>>, <<11286>>, <<11287>>, <<11288>>, <<11289>>, <<11290>>,
    <<11291>>, <<11292>>, <<11293>>, <<11294>>, <<11295>>, <<11296>>, <<11297>>, <<11298>>,
    <<11299>>, <<11300>>, <<11301>>, <<11302>>, <<11303>>, <<11304>>, <<11305>>, <<11306>>,
    <<11307>>, <<11308>>, <<11309>>, <<11310>>, <<11311>>, <<11360>>, <<570>>, <<574>>,
    <<11367>>, <<11369>>, <<11371>>, <<11378>>, <<11381>>, <<11392>>, <<11394>>, <<11396>>,
    <<11398>>, <<11400>>, <<11402>>, <<11404>>, <<11406>>, <<11408>>, <<11410>>, <<11412>>,
    <<11414>>, <<11416>>, <<11418>>, <<11420>>, <<11422>>, <<11424>>, <<11426>>, <<11428>>,
    <<11430>>, <<11432>>, <<11434>>, <<11436>>, <<11438>>, <<11440>>, <<11442>>, <<11444>>,
    <<11446>>, <<11448>>, <<11450>>, <<11452>>, <<11454>>, <<11456>>, <<11458>>, <<11460>>,
    <<11462>>, <<11464>>, <<11466>>, <<11468>>, <<11470>>, <<11472>>, <<11474>>, <<11476>>,
    <<11478>>, <<11480>>, <<11482>>, <<11484>>, <<11486>>, <<11488>>, <<11490>>, <<11499>>,
    <<11501>>, <<11506>>, <<4256>>, <<4257>>, <<4258>>, <<4259>>, <<4260>>, <<4261>>, <<4262>>,
    <<4263>>, <<4264>>, <<4265>>, <<4266>>, <<4267>>, <<4268>>, <<4269>>, <<4270>>, <<4271>>,
    <<4272>>, <<4273>>, <<4274>>, <<4275>>, <<4276>>, <<4277>>, <<4278>>, <<4279>>, <<4280>>,
    <<4281>>, <<4282>>, <<4283>>, <<4284>>, <<4285>>, <<4286>>, <<4287>>, <<4288>>, <<4289>>,
    <<4290>>, <<4291>>, <<4292>>, <<4293>>, <<4295>>, <<4301>>, <<42560>>, <<42562>>,
    <<42564>>, <<42566>>, <<42568>>, <<42570>>, <<42572>>, <<42574>>, <<42576>>, <<42578>>,
    <<42580>>, <<42582>>, <<42584>>, <<42586>>, <<42588>>, <<42590>>, <<42592>>, <<42594>>,
    <<42596>>, <<42598>>, <<42600>>, <<42602>>, <<42604>>, <<42624>>, <<42626>>, <<42628>>,
    <<42630>>, <<42632>>, <<42634>>, <<42636>>, <<42638>>, <<42640>>, <<42642>>, <<42644>>,
    <<42646>>, <<42648>>, <<42650>>, <<42786>>, <<42788>>, <<42790>>, <<42792>>, <<42794>>,
    <<42796>>, <<42798>>, <<42802>>, <<42804>>, <<42806>>, <<42808>>, <<42810>>, <<42812>>,
    <<42814>>, <<42816>>, <<42818>>, <<42820>>, <<42822>>, <<42824>>, <<42826>>, <<42828>>,
    <<42830>>, <<42832>>, <<42834>>, <<42836>>, <<42838>>, <<42840>>, <<42842>>, <<42844>>,
    <<42846>>, <<42848>>, <<42850>>, <<42852>>, <<42854>>, <<42856>>, <<42858>>, <<42860>>,
    <<42862>>, <<42873>>, <<42875>>, <<42878>>, <<42880>>, <<42882>>, <<42884>>, <<42886>>,
    <<42891>>, <<42896>>, <<42898>>, <<42948>>, <<42902>>, <<42904>>, <<42906>>, <<42908>>,
    <<42910>>, <<42912>>, <<42914>>, <<42916>>, <<42918>>, <<42920>>, <<42932>>, <<42934>>,
    <<42936>>, <<42938>>, <<42940>>, <<42942>>, <<42944>>, <<42946>>, <<42951>>, <<42953>>,
    <<42960>>, <<42966>>, <<42968>>, <<42997>>, <<42931>>, <<5024>>, <<5025>>, <<5026>>,
    <<5027>>, <<5028>>, <<5029>>, <<5030>>, <<5031>>, <<5032>>, <<5033>>, <<5034>>, <<5035>>,
    <<5036>>, <<5037>>, <<5038>>, <<5039>>, <<5040>>, <<5041>>, <<5042>>, <<5043>>, <<5044>>,
    <<5045>>, <<5046>>, <<5047>>, <<5048>>, <<5049>>, <<5050>>, <<5051>>, <<5052>>, <<5053>>,
    <<5054>>, <<5055>>, <<5056>>, <<5057>>, <<5058>>, <<5059>>, <<5060>>, <<5061>>, <<5062>>,
    <<5063>>, <<5064>>, <<5065>>, <<5066>>, <<5067>>, <<5068>>, <<5069>>, <<5070>>, <<5071>>,
    <<5072>>, <<5073>>, <<5074>>, <<5075>>, <<5076>>, <<5077>>, <<5078>>, <<5079>>, <<5080>>,
    <<5081>>, <<5082>>, <<5083>>, <<5084>>, <<5085>>, <<5086>>, <<5087>>, <<5088>>, <<5089>>,
    <<5090>>, <<5091>>, <<5092>>, <<5093>>, <<5094>>, <<5095>>, <<5096>>, <<5097>>, <<5098>>,
    <<5099>>, <<5100>>, <<5101>>, <<5102>>, <<5103>>, <<70, 70>>, <<70, 73>>, <<70, 76>>,
    <<70, 70, 73>>, <<70, 70, 76>>, <<83, 84>>, <<83, 84>>, <<1348, 1350>>, <<1348, 1333>>,
    <<1348, 1339>>, <<1358, 1350>>, <<1348, 1341>>, <<65313>>, <<65314>>, <<65315>>, <<65316>>,
    <<65317>>, <<65318>>, <<65319>>, <<65320>>, <<65321>>, <<65322>>, <<65323>>, <<65324>>,
    <<65325>>, <<65326>>, <<65327>>, <<65328>>, <<65329>>, <<65330>>, <<65331>>, <<65332>>,
    <<65333>>, <<65334>>, <<65335>>, <<65336>>, <<65337>>, <<65338>>, <<66560>>, <<66561>>,
    <<66562>>, <<66563>>, <<66564>>, <<66565>>, <<66566>>, <<66567>>, <<66568>>, <<66569>>,
    <<66570>>, <<66571>>, <<66572>>, <<66573>>, <<66574>>, <<66575>>, <<66576>>, <<66577>>,
    <<66578>>, <<66579>>, <<66580>>, <<66581>>, <<66582>>, <<66583>>, <<66584>>, <<66585>>,
    <<66586>>, <<66587>>, <<66588>>, <<66589>>, <<66590>>, <<66591>>, <<66592>>, <<66593>>,
    <<66594>>, <<66595>>, <<66596>>, <<66597>>, <<66598>>, <<66599>>, <<66736>>, <<66737>>,
    <<66738>>, <<66739>>, <<66740>>, <<66741>>, <<66742>>, <<66743>>, <<66744>>, <<66745>>,
    <<66746>>, <<66747>>, <<66748>>, <<66749>>, <<66750>>, <<66751>>, <<66752>>, <<66753>>,
    <<66754>>, <<66755>>, <<66756>>, <<66757>>, <<66758>>, <<66759>>, <<66760>>, <<66761>>,
    <<66762>>, <<66763>>, <<66764>>, <<66765>>, <<66766>>, <<66767>>, <<66768>>, <<66769>>,
    <<66770>>, <<66771>>, <<66928>>, <<66929>>, <<66930>>, <<66931>>, <<66932>>, <<66933>>,
    <<66934>>, <<66935>>, <<66936>>, <<66937>>, <<66938>>, <<66940>>, <<66941>>, <<66942>>,
    <<66943>>, <<66944>>, <<66945>>, <<66946>>, <<66947>>, <<66948>>, <<66949>>, <<66950>>,
    <<66951>>, <<66952>>, <<66953>>, <<66954>>, <<66956>>, <<66957>>, <<66958>>, <<66959>>,
    <<66960>>, <<66961>>, <<66962>>, <<66964>>, <<66965>>, <<68736>>, <<68737>>, <<68738>>,
    <<68739>>, <<68740>>, <<68741>>, <<68742>>, <<68743>>, <<68744>>, <<68745>>, <<68746>>,
    <<68747>>, <<68748>>, <<68749>>, <<68750>>, <<68751>>, <<68752>>, <<68753>>, <<68754>>,
    <<68755>>, <<68756>>, <<68757>>, <<68758>>, <<68759>>, <<68760>>, <<68761>>, <<68762>>,
    <<68763>>, <<68764>>, <<68765>>, <<68766>>, <<68767>>, <<68768>>, <<68769>>, <<68770>>,
    <<68771>>, <<68772>>, <<68773>>, <<68774>>, <<68775>>, <<68776>>, <<68777>>, <<68778>>,
    <<68779>>, <<68780>>, <<68781>>, <<68782>>, <<68783>>, <<68784>>, <<68785>>, <<68786>>,
    <<71840>>, <<71841>>, <<71842>>, <<71843>>, <<71844>>, <<71845>>, <<71846>>, <<71847>>,
    <<71848>>, <<71849>>, <<71850>>, <<71851>>, <<71852>>, <<71853>>, <<71854>>, <<71855>>,
    <<71856>>, <<71857>>, <<71858>>, <<71859>>, <<71860>>, <<71861>>, <<71862>>, <<71863>>,
    <<71864>>, <<71865>>, <<71866>>, <<71867>>, <<71868>>, <<71869>>, <<71870>>, <<71871>>,
    <<93760>>, <<93761>>, <<93762>>, <<93763>>, <<93764>>, <<93765>>, <<93766>>, <<93767>>,
    <<93768>>, <<93769>>, <<93770>>, <<93771>>, <<93772>>, <<93773>>, <<93774>>, <<93775>>,
    <<93776>>, <<93777>>, <<93778>>, <<93779>>, <<93780>>, <<93781>>, <<93782>>, <<93783>>,
    <<93784>>, <<93785>>, <<93786>>, <<93787>>, <<93788>>, <<93789>>, <<93790>>, <<93791>>,
    <<125184>>, <<125185>>, <<125186>>, <<125187>>, <<125188>>, <<125189>>, <<125190>>,
    <<125191>>, <<125192>>, <<125193>>, <<125194>>, <<125195>>, <<125196>>, <<125197>>,
    <<125198>>, <<125199>>, <<125200>>, <<125201>>, <<125202>>, <<125203>>, <<125204>>,
    <<125205>>, <<125206>>, <<125207>>, <<125208>>, <<125209>>, <<125210>>, <<125211>>,
    <<125212>>, <<125213>>, <<125214>>, <<125215>>, <<125216>>, <<125217>> >>

\* position of c in UpperFrom between lo and hi, 0 if it is not there
RECURSIVE UpperIndex(_, _, _)
UpperIndex(c, lo, hi) ==
    IF lo > hi THEN 0
    ELSE LET mid == (lo + hi) \div 2
         IN  IF UpperFrom[mid] = c THEN mid
             ELSE IF UpperFrom[mid] < c THEN UpperIndex(c, mid + 1, hi)
             ELSE UpperIndex(c, lo, mid - 1)

\* upper case of one character, as a string
UpperChar(c) ==
    LET i == UpperIndex(c, 1, Len(UpperFrom)) IN IF i = 0 THEN <<c>> ELSE UpperTo[i]

\* str.upper()
RECURSIVE StrUpper(_)
StrUpper(s) == IF s = <<>> THEN <<>> ELSE UpperChar(Head(s)) \o StrUpper(Tail(s))

RECURSIVE LStrip(_)
LStrip(s) == IF s # <<>> /\ Head(s) \in Whitespace THEN LStrip(Tail(s)) ELSE s

RECURSIVE RStrip(_)
RStrip(s) ==
    IF s # <<>> /\ s[Len(s)] \in Whitespace THEN RStrip(SubSeq(s, 1, Len(s) - 1)) ELSE s

\* str.strip()
StrStrip(s) == RStrip(LStrip(s))

\* str.replace(old, new) for one-character old and new
StrReplace(s, old, new) == [i \in 1..Len(s) |-> IF s[i] = old THEN new ELSE s[i]]

\* s < t for str: lexicographic by code point
RECURSIVE StrLess(_, _)
StrLess(s, t) ==
    IF t = <<>> THEN FALSE
    ELSE IF s = <<>> THEN TRUE
    ELSE IF Head(s) # Head(t) THEN Head(s) < Head(t)
    ELSE StrLess(Tail(s), Tail(t))

\* ---------------------------------------------------------- nullable cells
NaN == <<>>
Some(v) == <<v>>
IsNA(c) == c = <<>>
Val(c) == c[1]

\* (mutation of FillNa: the other column wins whenever it has a value)
FillNaOtro(c, other) == IF IsNA(other) THEN c ELSE other

\* Series.fillna(other): a missing cell takes the cell of the other column
FillNa(c, other) == IF IsNA(c) THEN other ELSE c

\* ------------------------------------------- float64 arithmetic (binary64)
LimbBase == 32 * 1024
MantBits == 53

RECURSIVE BN(_)
BN(n) == IF n = 0 THEN <<>> ELSE <<n % LimbBase>> \o BN(n \div LimbBase)

RECURSIVE BStrip(_)
BStrip(x) ==
    IF x = <<>> THEN <<>>
    ELSE IF x[Len(x)] = 0 THEN BStrip(SubSeq(x, 1, Len(x) - 1)) ELSE x

BRest(x) == IF x = <<>> THEN <<>> ELSE Tail(x)
BLow(x) == IF x = <<>> THEN 0 ELSE Head(x)

RECURSIVE BAddC(_, _, _)
BAddC(x, y, c) ==
    IF x = <<>> /\ y = <<>> THEN (IF c = 0 THEN <<>> ELSE <<c>>)
    ELSE LET s == BLow(x) + BLow(y) + c
         IN  <<s % LimbBase>> \o BAddC(BRest(x), BRest(y), s \div LimbBase)

BAdd(x, y) == BAddC(x, y, 0)

RECURSIVE BSubC(_, _, _)
BSubC(x, y, c) ==
    IF x = <<>> THEN <<>>
    ELSE LET d == BLow(x) - BLow(y) - c
         IN  IF d < 0 THEN <<d + LimbBase>> \o BSubC(BRest(x), BRest(y), 1)
                      ELSE <<d>> \o BSubC(BRest(x), BRest(y), 0)

BSub(x, y) == BStrip(BSubC(x, y, 0))

RECURSIVE BCmpFrom(_, _, _)
BCmpFrom(x, y, i) ==
    IF i = 0 THEN 0
    ELSE IF x[i] < y[i] THEN -1
    ELSE IF x[i] > y[i] THEN 1
    ELSE BCmpFrom(x, y, i - 1)

BCmp(x, y) ==
    IF Len(x) < Len(y) THEN -1
    ELSE IF Len(x) > Len(y) THEN 1
    ELSE BCmpFrom(x, y, Len(x))

RECURSIVE BMulSmallC(_, _, _)
BMulSmallC(x, k, c) ==
    IF x = <<>> THEN (IF c = 0 THEN <<>> ELSE <<c>>)
    ELSE LET p == Head(x) * k + c
         IN  <<p % LimbBase>> \o BMulSmallC(Tail(x), k, p \div LimbBase)

BMulSmall(x, k) == IF k = 0 THEN <<>> ELSE BMulSmallC(x, k, 0)

RECURSIVE BMul(_, _)
BMul(x, y) ==
    IF x = <<>> \/ y = <<>> THEN <<>>
    ELSE BAdd(BMulSmall(y, Head(x)), BStrip(<<0>> \o BMul(Tail(x), y)))

RECURSIVE IntBitLen(_)
IntBitLen(n) == IF n = 0 THEN 0 ELSE 1 + IntBitLen(n \div 2)

BBitLen(x) == IF x = <<>> THEN 0 ELSE 15 * (Len(x) - 1) + IntBitLen(x[Len(x)])

RECURSIVE BZeros(_)
BZeros(k) == IF k = 0 THEN <<>> ELSE <<0>> \o BZeros(k - 1)

BShl(x, n) ==
    IF x = <<>> THEN <<>>
    ELSE BZeros(n \div 15) \o BMulSmall(x, 2 ^ (n % 15))

\* x \div k for a limb-sized k, most significant limb first
RECURSIVE BDivSmallFrom(_, _, _, _)
BDivSmallFrom(x, k, i, r) ==
    IF i = 0 THEN <<>>
    ELSE LET t == r * LimbBase + x[i]
         IN  BDivSmallFrom(x, k, i - 1, t % k) \o <<t \div k>>

BDivSmall(x, k) == BStrip(BDivSmallFrom(x, k, Len(x), 0))

BShr(x, n) ==
    IF n \div 15 >= Len(x) THEN <<>>
    ELSE BDivSmall(SubSeq(x, n \div 15 + 1, Len(x)), 2 ^ (n % 15))

BLowZero(x, n) == BShl(BShr(x, n), n) = x

BOdd(x) == BLow(x) % 2 = 1

RECURSIVE BToInt(_)
BToInt(x) == IF x = <<>> THEN 0 ELSE Head(x) + LimbBase * BToInt(Tail(x))

\* ---- binary64 values: cls "num" is (-1)^s * m * 2^e with m of 53 bits, or zero
FNaN == [cls |-> "nan", s |-> 0, m |-> <<>>, e |-> 0]
FNA == [cls |-> "na", s |-> 0, m |-> <<>>, e |-> 0]
FZero == [cls |-> "num", s |-> 0, m |-> <<>>, e |-> 0]

FIsNum(a) == a.cls = "num"

\* round-to-nearest-even of (-1)^s * m * 2^e (plus a sticky fraction below m)
FRound(s, m, e, sticky) ==
    LET len == BBitLen(m) IN
    IF len = 0 THEN FZero
    ELSE IF len <= MantBits
    THEN [cls |-> "num", s |-> s, m |-> BShl(m, MantBits - len), e |-> e - (MantBits - len)]
    ELSE LET d == len - MantBits
             top == BShr(m, d)
             guard == BOdd(BShr(m, d - 1))
             rest == sticky \/ ~BLowZero(m, d - 1)
             up == guard /\ (rest \/ BOdd(top))
             r == IF up THEN BAdd(top, <<1>>) ELSE top
         IN  IF BBitLen(r) > MantBits
             THEN [cls |-> "num", s |-> s, m |-> BShr(r, 1), e |-> e + d + 1]
             ELSE [cls |-> "num", s |-> s, m |-> r, e |-> e + d]

FFromInt(n) == IF n < 0 THEN FRound(1, BN(-n), 0, FALSE) ELSE FRound(0, BN(n), 0, FALSE)

FNeg(a) == IF FIsNum(a) /\ a.m # <<>> THEN [a EXCEPT !.s = 1 - a.s] ELSE a

FAdd(a, b) ==
    IF ~FIsNum(a) THEN a
    ELSE IF ~FIsNum(b) THEN b
    ELSE IF a.m = <<>> THEN b
    ELSE IF b.m = <<>> THEN a
    ELSE LET e0 == IF a.e < b.e THEN a.e ELSE b.e
             x == BShl(a.m, a.e - e0)
             y == BShl(b.m, b.e - e0)
         IN  IF a.s = b.s THEN FRound(a.s, BAdd(x, y), e0, FALSE)
             ELSE IF BCmp(x, y) >= 0 THEN FRound(a.s, BSub(x, y), e0, FALSE)
             ELSE FRound(b.s, BSub(y, x), e0, FALSE)

FSub(a, b) == FAdd(a, FNeg(b))

FMul(a, b) ==
    IF ~FIsNum(a) THEN a
    ELSE IF ~FIsNum(b) THEN b
    ELSE FRound((a.s + b.s) % 2, BMul(a.m, b.m), a.e + b.e, FALSE)

\* long division of two 53-bit mantissas, one quotient bit a step; the operands
\* are held as <<high, low>> halves of 27 bits, the quotient in halves of 28
Half27 == 2 ^ 27
Half28 == 2 ^ 28

HalvesOf(m) ==
    <<(m[2] \div 4096) + m[3] * 8 + m[4] * 262144, m[1] + (m[2] % 4096) * 32768>>

LimbsOf(qh, ql) ==
    BStrip(<<ql % 32768, (ql \div 32768) + (qh % 4) * 8192, (qh \div 4) % 32768, qh \div 131072>>)

\* <<rh, rl, qh, ql>> after one more quotient bit
DivStep(rh, rl, qh, ql, dh, dl, th, tl) ==
    IF th > dh \/ (th = dh /\ tl >= dl)
    THEN <<IF tl >= dl THEN th - dh ELSE th - dh - 1,
           IF tl >= dl THEN tl - dl ELSE tl - dl + Half27,
           2 * qh + (2 * ql + 1) \div Half28, (2 * ql + 1) % Half28>>
    ELSE <<th, tl, 2 * qh + (2 * ql) \div Half28, (2 * ql) % Half28>>

RECURSIVE DivLoop(_, _, _, _)
DivLoop(t, dh, dl, n) ==
    IF n = 0 \/ t[1] < 0 THEN t
    ELSE DivLoop(DivStep(t[1], t[2], t[3], t[4], dh, dl,
                         2 * t[1] + (2 * t[2]) \div Half27, (2 * t[2]) % Half27),
                 dh, dl, n - 1)

\* quotient bits (55 after the leading one) and remainder of a.m / b.m
DivMant(a, b) ==
    IF a[1] > b[1] \/ (a[1] = b[1] /\ a[2] >= b[2])
    THEN DivLoop(<<IF a[2] >= b[2] THEN a[1] - b[1] ELSE a[1] - b[1] - 1,
                   IF a[2] >= b[2] THEN a[2] - b[2] ELSE a[2] - b[2] + Half27, 0, 1>>,
                 b[1], b[2], 55)
    ELSE DivLoop(<<a[1], a[2], 0, 0>>, b[1], b[2], 55)

FDivRound(s, e, t) == FRound(s, LimbsOf(t[3], t[4]), e, t[1] # 0 \/ t[2] # 0)

\* a / b (a zero divisor is excluded by every caller)
FDiv(a, b) ==
    IF ~FIsNum(a) THEN a
    ELSE IF ~FIsNum(b) THEN b
    ELSE IF b.m = <<>> THEN FNaN
    ELSE IF a.m = <<>> THEN FZero
    ELSE FDivRound((a.s + b.s) % 2, a.e - b.e - 55, DivMant(HalvesOf(a.m), HalvesOf(b.m)))

FGt0(a) == FIsNum(a) /\ a.m # <<>> /\ a.s = 0
FEq0(a) == FIsNum(a) /\ a.m = <<>>

FCeil(a) ==
    IF a.m = <<>> THEN 0
    ELSE IF a.e >= 0 THEN (IF a.s = 0 THEN 1 ELSE -1) * BToInt(BShl(a.m, a.e))
    ELSE LET fl == BToInt(BShr(a.m, -a.e))
             exact == BLowZero(a.m, -a.e)
         IN  IF a.s = 0 THEN (IF exact THEN fl ELSE fl + 1) ELSE -fl

FLess(a, b) ==
    LET d == FSub(a, b) IN d.m # <<>> /\ d.s = 1

\* -------------------------------------------------------- program data

\* string literals of the inputs, as code points
\* 'MDF RH'
S_MDF_RH == <<77, 68, 70, 32, 82, 72>>
\* '\xa0mdf rh\x09'
S_mdf_rh == <<160, 109, 100, 102, 32, 114, 104, 9>>
\* 'OSB'
S_OSB == <<79, 83, 66>>
\* 'MADECOR MUF BLANCO'
S_MADECOR == <<77, 65, 68, 69, 67, 79, 82, 32, 77, 85, 70, 32, 66, 76, 65, 78, 67, 79>>
\* 'MDF_RH'
K_MDF_RH == <<77, 68, 70, 95, 82, 72>>
\* 'mdf rh\x1c'
k_mdf_rh == <<109, 100, 102, 32, 114, 104, 28>>
\* 'H'
S_H == <<72>>
\* 'V'
S_V == <<86>>
\* 'LIBRE'
S_LIBRE == <<76, 73, 66, 82, 69>>
\* 'h'
S_h == <<104>>
\* 'A'
S_A == <<65>>
\* 'B'
S_B == <<66>>

Formato(k, e, l, a) ==
    [Material_key |-> k, Espesor_mm |-> e, Largo_formato_mm |-> l, Ancho_formato_mm |-> a]

\* the built-in catalog (Espesor_mm in tenths of a millimetre)
formato_default == <<
    \* 'MADECOR_MUF_BLANCO'
    Formato(<<77, 65, 68, 69, 67, 79, 82, 95, 77, 85, 70, 95, 66, 76, 65, 78, 67, 79>>,
            150, 2440, 1830),
    \* 'MDF_RH'
    Formato(<<77, 68, 70, 95, 82, 72>>,
            180, 2440, 1830),
    \* 'MDF_RH'
    Formato(<<77, 68, 70, 95, 82, 72>>,
            150, 2440, 1830),
    \* 'MDF_2_7'
    Formato(<<77, 68, 70, 95, 50, 95, 55>>,
            27, 2440, 1830),
    \* 'MDF_UNICOR_MUF_NEVADO'
    Formato(<<77, 68, 70, 95, 85, 78, 73, 67, 79, 82, 95, 77, 85, 70, 95, 78, 69, 86, 65, 68, 79>>,
            180, 2440, 1830),
    \* 'MADEFONDO_MUF_BLANCO'
    Formato(<<77, 65, 68, 69, 70, 79, 78, 68, 79, 95, 77, 85, 70, 95, 66, 76, 65, 78, 67, 79>>,
            55, 2440, 1830),
    \* 'FORMICA_BLANCA_NIEVE_2102'
    Formato(<<70, 79, 82, 77, 73, 67, 65, 95, 66, 76, 65, 78, 67, 65, 95, 78, 73, 69, 86, 69, 95, 50, 49, 48, 50>>,
            8, 2440, 1220),
    \* 'FORMICA_FASHION_WHITE_IT_2125'
    Formato(<<70, 79, 82, 77, 73, 67, 65, 95, 70, 65, 83, 72, 73, 79, 78, 95, 87, 72, 73, 84, 69, 95, 73, 84, 95, 50, 49, 50, 53>>,
            8, 2440, 1220)
>>

\* ------------------------------------------------------- pure functions

\* normaliza_material: str(s).strip().upper().replace(" ", "_")
normaliza_material(s) == StrReplace(StrUpper(StrStrip(s)), 32, 95)

\* to_m2 and the column expressions of the same form: (largo * ancho * cantidad) / 1_000_000
to_m2(largo_mm, ancho_mm, cantidad) ==
    FDiv(FFromInt(largo_mm * ancho_mm * cantidad), FFromInt(1000000))

\* Largo_formato_mm * Ancho_formato_mm / 1_000_000, NaN when either cell is missing
area_plancha(lf, af) ==
    IF IsNA(lf) \/ IsNA(af) THEN FNaN ELSE to_m2(Val(lf), Val(af), 1)

\* math.ceil(x): an integer, or ValueError for NaN
math_ceil(x) ==
    IF FIsNum(x) THEN [n |-> FCeil(x), err |-> ""]
    ELSE [n |-> 0, err |-> "ValueError: cannot convert float NaN to integer"]

\* ceil_div: math.ceil(a / b) if b else 0   (0.0 is falsy, NaN is truthy)
ceil_div(a, b) == IF FEq0(b) THEN [n |-> 0, err |-> ""] ELSE math_ceil(FDiv(a, b))

\* Kahan-compensated running sum of DataFrameGroupBy.sum(), as <<sum, compensation>>;
\* missing values are skipped, so a group of missing values sums to 0.0
RECURSIVE KahanFrom(_, _, _)
KahanFrom(vals, i, acc) ==
    IF i > Len(vals) THEN acc
    ELSE IF ~FIsNum(vals[i]) THEN KahanFrom(vals, i + 1, acc)
    ELSE LET y == FSub(vals[i], acc[2])
             t == FAdd(acc[1], y)
             c == FSub(FSub(t, acc[1]), y)
         IN  KahanFrom(vals, i + 1, <<t, c>>)

GroupSum(vals) == KahanFrom(vals, 1, <<FZero, FZero>>)[1]

\* ------------------------------------------------------------- the merge

PiezaCols == {"Largo_formato_mm", "Ancho_formato_mm"}
FmtCol(c) == IF c = "Largo_formato_mm" THEN "Largo_formato_mm_fmt" ELSE "Ancho_formato_mm_fmt"

\* catalog rows whose keys equal the piece's, in catalog order
RECURSIVE MatchesFrom(_, _, _)
MatchesFrom(p, cat, j) ==
    IF j > Len(cat) THEN <<>>
    ELSE IF cat[j].Material_key = p.Material_key /\ cat[j].Espesor_mm = p.Espesor_mm
    THEN <<j>> \o MatchesFrom(p, cat, j + 1)
    ELSE MatchesFrom(p, cat, j + 1)

Matches(p, cat) == MatchesFrom(p, cat, 1)

\* one output row of the left merge; right is <<>> (no match) or <<catalog row>>.
\* A column both frames have keeps the left cell and gets the right one as *_fmt;
\* a column only the catalog has keeps its own name.
MergeRow(p, right, cols) ==
    LET rl == IF right = <<>> THEN NaN ELSE Some(right[1].Largo_formato_mm)
        ra == IF right = <<>> THEN NaN ELSE Some(right[1].Ancho_formato_mm)
    IN  [Nombre |-> p.Nombre, Material |-> p.Material, Espesor_mm |-> p.Espesor_mm,
         Largo_mm |-> p.Largo_mm, Ancho_mm |-> p.Ancho_mm, Cantidad |-> p.Cantidad,
         OrientacionVeta |-> p.OrientacionVeta, Material_key |-> p.Material_key,
         Largo_formato_mm |-> IF "Largo_formato_mm" \in cols THEN p.Largo_formato_mm ELSE rl,
         Ancho_formato_mm |-> IF "Ancho_formato_mm" \in cols THEN p.Ancho_formato_mm ELSE ra,
         Largo_formato_mm_fmt |-> IF "Largo_formato_mm" \in cols THEN rl ELSE NaN,
         Ancho_formato_mm_fmt |-> IF "Ancho_formato_mm" \in cols THEN ra ELSE NaN,
         Area_m2 |-> FNaN, Area_plancha_m2 |-> FNaN, Check_veta |-> ""]

RECURSIVE RowsFor(_, _, _, _, _)
RowsFor(p, cat, ms, k, cols) ==
    IF k > Len(ms) THEN <<>>
    ELSE <<MergeRow(p, <<cat[ms[k]]>>, cols)>> \o RowsFor(p, cat, ms, k + 1, cols)

\* pd.merge(df_piezas, formatos_user, how="left", on [Material_key, Espesor_mm]):
\* left order kept; a left row yields one row per matching right row, in right
\* order, or one row with missing right cells when nothing matches
RECURSIVE MergeLeft(_, _, _, _)
MergeLeft(piezas, cat, i, cols) ==
    IF i > Len(piezas) THEN <<>>
    ELSE LET ms == Matches(piezas[i], cat)
             here == IF ms = <<>> THEN <<MergeRow(piezas[i], <<>>, cols)>>
                     ELSE RowsFor(piezas[i], cat, ms, 1, cols)
         IN  here \o MergeLeft(piezas, cat, i + 1, cols)

MergeCols(cols) == PiezaCols \cup {FmtCol(c) : c \in cols}

\* ------------------------------------------------------------ grain check
MsgOK == "OK"
MsgLargo == "Largo pieza > largo vetado del formato"
MsgAncho == "Ancho pieza > largo vetado del formato"

\* (mutation of Max: the smaller format dimension)
MaxMenor(a, b) == IF a > b THEN b ELSE a

\* max(Lf, Af)
Max(a, b) == IF a > b THEN a ELSE b

valida_veta(row) ==
    LET orient == StrUpper(row.OrientacionVeta)
        Lp == row.Largo_mm
        Ap == row.Ancho_mm
        Lf == row.Largo_formato_mm
        Af == row.Ancho_formato_mm
    IN  IF orient = S_LIBRE \/ IsNA(Lf) \/ IsNA(Af) THEN MsgOK
        ELSE IF orient = S_H /\ Lp > Max(Val(Lf), Val(Af)) THEN MsgLargo
        ELSE IF orient = S_V /\ Ap > Max(Val(Lf), Val(Af)) THEN MsgAncho
        ELSE MsgOK

\* ---------------------------------------------------------------- summary
\* (mutation of GroupKey: the sheet area left out of the key)
GroupKeySinArea(row) ==
    [Material |-> row.Material, Material_key |-> row.Material_key,
     Espesor_mm |-> row.Espesor_mm, Area_plancha_m2 |-> FNaN]

GroupKey(row) ==
    [Material |-> row.Material, Material_key |-> row.Material_key,
     Espesor_mm |-> row.Espesor_mm, Area_plancha_m2 |-> row.Area_plancha_m2]

\* order of the group keys (groupby sorts them; a missing sheet area sorts last)
KeyLess(k1, k2) ==
    IF k1.Material # k2.Material THEN StrLess(k1.Material, k2.Material)
    ELSE IF k1.Material_key # k2.Material_key THEN StrLess(k1.Material_key, k2.Material_key)
    ELSE IF k1.Espesor_mm # k2.Espesor_mm THEN k1.Espesor_mm < k2.Espesor_mm
    ELSE IF ~FIsNum(k2.Area_plancha_m2) THEN FIsNum(k1.Area_plancha_m2)
    ELSE IF ~FIsNum(k1.Area_plancha_m2) THEN FALSE
    ELSE FLess(k1.Area_plancha_m2, k2.Area_plancha_m2)

\* the distinct keys of the rows, in order of first appearance
RECURSIVE DistinctKeys(_, _, _)
DistinctKeys(rows, i, seen) ==
    IF i > Len(rows) THEN seen
    ELSE IF \E j \in 1..Len(seen) : seen[j] = GroupKey(rows[i])
    THEN DistinctKeys(rows, i + 1, seen)
    ELSE DistinctKeys(rows, i + 1, Append(seen, GroupKey(rows[i])))

RECURSIVE InsertKey(_, _)
InsertKey(k, sorted) ==
    IF sorted = <<>> THEN <<k>>
    ELSE IF KeyLess(k, Head(sorted)) THEN <<k>> \o sorted
    ELSE <<Head(sorted)>> \o InsertKey(k, Tail(sorted))

RECURSIVE SortKeys(_)
SortKeys(ks) == IF ks = <<>> THEN <<>> ELSE InsertKey(Head(ks), SortKeys(Tail(ks)))

\* Area_m2 of the rows with key k, in row order
RECURSIVE AreasOf(_, _, _)
AreasOf(rows, k, i) ==
    IF i > Len(rows) THEN <<>>
    ELSE IF GroupKey(rows[i]) = k THEN <<rows[i].Area_m2>> \o AreasOf(rows, k, i + 1)
    ELSE AreasOf(rows, k, i + 1)

\* (mutation of planchas_necesarias: the "> 0" guard dropped)
planchas_sin_guarda(area, plancha) == ceil_div(area, plancha)

\* Planchas_necesarias: ceil_div(Area_m2, Area_plancha_m2) if Area_plancha_m2 > 0 else 0
planchas_necesarias(area, plancha) ==
    IF FGt0(plancha) THEN ceil_div(area, plancha) ELSE [n |-> 0, err |-> ""]

\* Rendimiento_%: Area_m2 / (Planchas * Area_plancha_m2).replace(0, pd.NA) * 100
rendimiento(area, planchas, plancha) ==
    LET den == FMul(FFromInt(planchas), plancha)
        den2 == IF FEq0(den) THEN FNA ELSE den
    IN  FMul(FDiv(area, den2), FFromInt(100))

ResumenFila(k, total, pl) ==
    [Material |-> k.Material, Material_key |-> k.Material_key,
     Espesor_mm |-> k.Espesor_mm, Area_plancha_m2 |-> k.Area_plancha_m2,
     Area_m2 |-> total, Planchas_necesarias |-> pl.n, fault |-> pl.err,
     Rendimiento |-> rendimiento(total, pl.n, k.Area_plancha_m2)]

ResumenTotal(k, total) == ResumenFila(k, total, planchas_necesarias(total, k.Area_plancha_m2))

ResumenRow(rows, k) == ResumenTotal(k, GroupSum(AreasOf(rows, k, 1)))

\* groupby([Material, Material_key, Espesor_mm, Area_plancha_m2], dropna=False)
\* ["Area_m2"].sum().reset_index(), then the two derived columns
ResumenDe(rows, ks) == [g \in 1..Len(ks) |-> ResumenRow(rows, ks[g])]

Resumen(rows) == ResumenDe(rows, SortKeys(DistinctKeys(rows, 1, <<>>)))

\* the exception the row-wise apply raised, "" if none
ResumenFault(res) ==
    IF \A g \in 1..Len(res) : res[g].fault = "" THEN ""
    ELSE res[CHOOSE g \in 1..Len(res) :
                 res[g].fault # "" /\ \A h \in 1..(g - 1) : res[h].fault = ""].fault

\* -------------------------------------------------------------- edge bands
RECURSIVE DistinctTipos(_, _, _)
DistinctTipos(rows, i, seen) ==
    IF i > Len(rows) THEN seen
    ELSE IF \E j \in 1..Len(seen) : seen[j] = rows[i].Tipo
    THEN DistinctTipos(rows, i + 1, seen)
    ELSE DistinctTipos(rows, i + 1, Append(seen, rows[i].Tipo))

RECURSIVE InsertTipo(_, _)
InsertTipo(t, sorted) ==
    IF sorted = <<>> THEN <<t>>
    ELSE IF StrLess(t, Head(sorted)) THEN <<t>> \o sorted
    ELSE <<Head(sorted)>> \o InsertTipo(t, Tail(sorted))

RECURSIVE SortTipos(_)
SortTipos(ts) == IF ts = <<>> THEN <<>> ELSE InsertTipo(Head(ts), SortTipos(Tail(ts)))

\* Metros_lineales = Longitud_mm * Cantidad / 1000
metros_lineales(row) == FDiv(FFromInt(row.Longitud_mm * row.Cantidad), FFromInt(1000))

RECURSIVE MetrosOf(_, _, _)
MetrosOf(rows, t, i) ==
    IF i > Len(rows) THEN <<>>
    ELSE IF rows[i].Tipo = t THEN <<metros_lineales(rows[i])>> \o MetrosOf(rows, t, i + 1)
    ELSE MetrosOf(rows, t, i + 1)

\* df_cantos.groupby("Tipo")["Metros_lineales"].sum().reset_index();
\* without an edge-band table the summary is the empty frame
CantosDe(rows, ts) ==
    IF ts = <<>> THEN <<>>
    ELSE [g \in 1..Len(ts) |->
            [Tipo |-> ts[g], Metros_lineales |-> GroupSum(MetrosOf(rows, ts[g], 1))]]

CantosResumen(cantos) ==
    IF cantos = <<>> THEN <<>>
    ELSE CantosDe(cantos[1], SortTipos(DistinctTipos(cantos[1], 1, <<>>)))

\* ------------------------------------------------------------------ state
VARIABLES
    pc,              \* position in the script
    df_piezas,       \* the piece table (rows in file order); <<>> is None
    piezas_cols,     \* which optional override columns the piece table has
    formatos_user,   \* the format catalog as edited in the sidebar
    uploaded_cantos, \* the edge-band file: <<>> (none) or <<rows>>
    cantos_def,      \* whether the name df_cantos is bound yet
    df_cantos,       \* once bound: <<>> (None) or <<rows>>
    df_merge,        \* the enriched rows
    merge_cols,      \* format columns of df_merge
    resumen,         \* material summary
    cantos_resumen,  \* edge-band summary
    error            \* exception that ended the run, "" if none

vars == <<pc, df_piezas, piezas_cols, formatos_user, uploaded_cantos, cantos_def, df_cantos,
          df_merge, merge_cols, resumen, cantos_resumen, error>>

Pieza(mat, esp, largo, ancho, cant, orient, lf, af) ==
    [Nombre |-> "", Material |-> mat, Espesor_mm |-> esp, Largo_mm |-> largo,
     Ancho_mm |-> ancho, Cantidad |-> cant, OrientacionVeta |-> orient,
     Largo_formato_mm |-> lf, Ancho_formato_mm |-> af, Material_key |-> <<>>]

Canto(tipo, longitud, cant) == [Tipo |-> tipo, Longitud_mm |-> longitud, Cantidad |-> cant]

Nombres == <<"P1", "P2", "P3", "P4">>

\* all tables of 1..n rows over the row set, rows named by position
Tablas(rowset, n) ==
    UNION { { [i \in 1..k |-> [t[i] EXCEPT !.Nombre = Nombres[i]]] : t \in [1..k -> rowset] } :
            k \in 1..n }

\* all sequences of 0..n elements of the set
Listas(set, n) == {<<>>} \cup UNION { [1..k -> set] : k \in 1..n }

\* ----------------------------------------------------------------- inputs
SinFormato == <<NaN, NaN>>

\* format resolution: materials that normalise to the same key or to none of the
\* catalog, two thicknesses, with and without override, against catalogs that
\* may repeat a key
PiezasRes ==
    { Pieza(S_MDF_RH, 180, 1000, 500, 1, S_H, NaN, NaN),
      Pieza(S_mdf_rh, 180, 1000, 500, 1, S_H, NaN, NaN),
      Pieza(S_MDF_RH, 150, 1000, 500, 1, S_H, NaN, NaN),
      Pieza(S_OSB, 180, 1000, 500, 1, S_H, NaN, NaN),
      Pieza(S_MDF_RH, 180, 1000, 500, 1, S_H, Some(1500), Some(1200)),
      Pieza(S_MDF_RH, 180, 1000, 500, 1, S_H, Some(1500), NaN) }

FormatosRes ==
    { Formato(K_MDF_RH, 180, 2440, 1830),
      Formato(k_mdf_rh, 180, 2000, 1000) }

\* areas and sheet counts: pieces of one material whose areas add up to, below
\* and above the sheet area, and sheet areas that are zero, negative, missing
\* or overridden
PiezasArea ==
    { Pieza(S_MDF_RH, 180, 100, 1000, 1, S_LIBRE, NaN, NaN),
      Pieza(S_MDF_RH, 180, 200, 1000, 1, S_LIBRE, NaN, NaN),
      Pieza(S_MDF_RH, 180, 1000, 300, 1, S_LIBRE, NaN, NaN),
      Pieza(S_MDF_RH, 180, 1000, 300, 2, S_LIBRE, NaN, NaN),
      Pieza(S_MDF_RH, 180, 100, 1000, 1, S_LIBRE, Some(0), Some(1000)),
      Pieza(S_MDF_RH, 180, 100, 1000, 1, S_LIBRE, Some(-1000), Some(300)),
      Pieza(S_MDF_RH, 150, 100, 1000, 1, S_LIBRE, NaN, NaN),
      Pieza(S_MDF_RH, 180, 200, 1000, 1, S_LIBRE, Some(1000), Some(1000)) }

FormatosArea == <<Formato(K_MDF_RH, 180, 1000, 300)>>

\* grain check: every orientation spelling, pieces that fit and that exceed the
\* format either way, format from the catalog, overridden or unresolved
PiezasVeta ==
    { Pieza(S_MDF_RH, esp, d[1], d[2], 1, o, f[1], f[2]) :
        esp \in {180, 150}, d \in {<<2000, 500>>, <<2500, 500>>, <<500, 2500>>},
        o \in {S_H, S_V, S_LIBRE, S_h}, f \in {SinFormato, <<Some(2440), Some(1800)>>} }

FormatosVeta == <<Formato(K_MDF_RH, 180, 1800, 2440)>>

\* edge bands
CantosOpts ==
    { Canto(S_A, 1000, 2), Canto(S_A, 500, 1), Canto(S_B, 2000, 1), Canto(S_A, 100, 3) }

CantosEjemplo == <<Canto(S_A, 1000, 2), Canto(S_A, 500, 1), Canto(S_B, 2000, 1)>>

\* the example piece table of the help tab
PiezaBase == Pieza(S_MADECOR, 150, 1829, 1003, 1, S_H, NaN, NaN)
PiezaInternos == Pieza(S_MDF_RH, 180, 1003, 594, 2, S_LIBRE, NaN, NaN)

SinOverride(p) == IsNA(p.Largo_formato_mm) /\ IsNA(p.Ancho_formato_mm)

Start(piezas, cols, formatos, cantos) ==
    /\ pc = "start"
    /\ df_piezas = piezas
    /\ piezas_cols = cols
    /\ formatos_user = formatos
    /\ uploaded_cantos = cantos
    /\ cantos_def = FALSE
    /\ df_cantos = <<>>
    /\ df_merge = <<>>
    /\ merge_cols = {}
    /\ resumen = <<>>
    /\ cantos_resumen = <<>>
    /\ error = ""

InitRes ==
    \E cols \in {{}, PiezaCols} :
    \E piezas \in Tablas({p \in PiezasRes : cols = PiezaCols \/ SinOverride(p)}, MaxPiezas) :
    \E formatos \in Listas(FormatosRes, MaxFormatos) \cup {formato_default} :
        Start(piezas, cols, formatos, <<>>)

InitArea ==
    \E piezas \in Tablas(PiezasArea, MaxPiezas) :
        Start(piezas, PiezaCols, FormatosArea, <<CantosEjemplo>>)

InitVeta ==
    \E piezas \in Tablas(PiezasVeta, 1) :
        Start(piezas, PiezaCols, FormatosVeta, <<>>)

InitCantos ==
    \E piezas \in Tablas({PiezaInternos}, 1) :
    \E cantos \in {<<>>} \cup {<<c>> : c \in Listas(CantosOpts, MaxCantos)} :
        Start(piezas, PiezaCols, formato_default, cantos)

InitEjemplo ==
    \E cols \in {{}, PiezaCols} :
    \E piezas \in {<<PiezaBase>>, <<PiezaBase, PiezaInternos>>} :
        Start([i \in 1..Len(piezas) |-> [piezas[i] EXCEPT !.Nombre = Nombres[i]]],
              cols, formato_default, <<CantosEjemplo>>)

\* no piece file, or one that was rejected: df_piezas is None
InitSinPiezas ==
    \E formatos \in Listas(FormatosRes, 1) \cup {formato_default} :
    \E cantos \in {<<>>} \cup {<<c>> : c \in Listas(CantosOpts, MaxCantos)} :
        Start(<<>>, {}, formatos, cantos)

Init == InitRes \/ InitArea \/ InitVeta \/ InitCantos \/ InitEjemplo \/ InitSinPiezas

\* ---------------------------------------------------------------- actions

\* lines 191-192: the key column of the pieces, and the catalog keys rewritten in place
Normaliza ==
    /\ pc = "start"
    /\ df_piezas # <<>>
    /\ df_piezas' = [i \in 1..Len(df_piezas) |->
                        [df_piezas[i] EXCEPT !.Material_key = normaliza_material(df_piezas[i].Material)]]
    /\ formatos_user' = [j \in 1..Len(formatos_user) |->
                        [formatos_user[j] EXCEPT !.Material_key = normaliza_material(@)]]
    /\ pc' = "merge"
    /\ UNCHANGED <<piezas_cols, uploaded_cantos, cantos_def, df_cantos, df_merge, merge_cols, resumen, cantos_resumen, error>>

\* lines 195-202
Merge ==
    /\ pc = "merge"
    /\ df_merge' = MergeLeft(df_piezas, formatos_user, 1, piezas_cols)
    /\ merge_cols' = MergeCols(piezas_cols)
    /\ pc' = "formato"
    /\ UNCHANGED <<df_piezas, piezas_cols, formatos_user, uploaded_cantos, cantos_def, df_cantos, resumen, cantos_resumen, error>>

\* lines 205-208 and 209-212 for one column: both branches read the *_fmt column
FormatoCol(rows, cols, c) ==
    IF c \notin cols
    THEN [i \in 1..Len(rows) |-> [rows[i] EXCEPT ![c] = rows[i][FmtCol(c)]]]
    ELSE [i \in 1..Len(rows) |-> [rows[i] EXCEPT ![c] = FillNa(rows[i][c], rows[i][FmtCol(c)])]]

\* lines 205-212: reading a *_fmt column the merge did not produce raises KeyError
ResuelveFormato ==
    /\ pc = "formato"
    /\ IF "Largo_formato_mm_fmt" \notin merge_cols
       THEN /\ error' = "KeyError: 'Largo_formato_mm_fmt'"
            /\ pc' = "error"
            /\ UNCHANGED df_merge
       ELSE IF "Ancho_formato_mm_fmt" \notin merge_cols
       THEN /\ error' = "KeyError: 'Ancho_formato_mm_fmt'"
            /\ pc' = "error"
            /\ df_merge' = FormatoCol(df_merge, merge_cols, "Largo_formato_mm")
       ELSE /\ df_merge' = FormatoCol(FormatoCol(df_merge, merge_cols, "Largo_formato_mm"),
                                      merge_cols, "Ancho_formato_mm")
            /\ pc' = "areas"
            /\ UNCHANGED error
    /\ UNCHANGED <<df_piezas, piezas_cols, formatos_user, uploaded_cantos, cantos_def, df_cantos, merge_cols, resumen,
                   cantos_resumen>>

\* lines 215-222
Areas ==
    /\ pc = "areas"
    /\ df_merge' = [i \in 1..Len(df_merge) |->
                      [df_merge[i] EXCEPT
                          !.Area_m2 = to_m2(df_merge[i].Largo_mm, df_merge[i].Ancho_mm,
                                            df_merge[i].Cantidad),
                          !.Area_plancha_m2 = area_plancha(df_merge[i].Largo_formato_mm,
                                                           df_merge[i].Ancho_formato_mm)]]
    /\ pc' = "veta"
    /\ UNCHANGED <<df_piezas, piezas_cols, formatos_user, uploaded_cantos, cantos_def, df_cantos, merge_cols, resumen,
                   cantos_resumen, error>>

\* lines 225-245
CheckVeta ==
    /\ pc = "veta"
    /\ df_merge' = [i \in 1..Len(df_merge) |->
                      [df_merge[i] EXCEPT !.Check_veta = valida_veta(df_merge[i])]]
    /\ pc' = "resumen"
    /\ UNCHANGED <<df_piezas, piezas_cols, formatos_user, uploaded_cantos, cantos_def, df_cantos, merge_cols, resumen,
                   cantos_resumen, error>>

\* lines 251-263
ResumenPaso(res) ==
    IF ResumenFault(res) # ""
    THEN /\ error' = ResumenFault(res)
         /\ pc' = "error"
         /\ UNCHANGED resumen
    ELSE /\ resumen' = [g \in 1..Len(res) |->
                          [Material |-> res[g].Material, Material_key |-> res[g].Material_key,
                           Espesor_mm |-> res[g].Espesor_mm,
                           Area_plancha_m2 |-> res[g].Area_plancha_m2,
                           Area_m2 |-> res[g].Area_m2,
                           Planchas_necesarias |-> res[g].Planchas_necesarias,
                           Rendimiento |-> res[g].Rendimiento]]
         /\ pc' = "cantos"
         /\ UNCHANGED error

ResumenMateriales ==
    /\ pc = "resumen"
    /\ ResumenPaso(Resumen(df_merge))
    /\ UNCHANGED <<df_piezas, piezas_cols, formatos_user, uploaded_cantos, cantos_def, df_cantos, df_merge, merge_cols,
                   cantos_resumen>>

\* lines 278-280: the table rebound to a copy with the per-row metres
ConMetros(rows) ==
    [i \in 1..Len(rows) |->
        [Tipo |-> rows[i].Tipo, Longitud_mm |-> rows[i].Longitud_mm,
         Cantidad |-> rows[i].Cantidad, Metros_lineales |-> metros_lineales(rows[i])]]

NameErrorCantos == "NameError: name 'df_cantos' is not defined"

\* lines 277-286: df_cantos is read here, in the first tab, before the second
\* tab has bound it
Cantos ==
    /\ pc = "cantos"
    /\ IF ~cantos_def
       THEN /\ error' = NameErrorCantos
            /\ pc' = "error"
            /\ UNCHANGED <<df_cantos, cantos_resumen>>
       ELSE /\ cantos_resumen' = CantosResumen(df_cantos)
            /\ df_cantos' = IF df_cantos = <<>> THEN <<>> ELSE <<ConMetros(df_cantos[1])>>
            /\ pc' = "tab2"
            /\ UNCHANGED error
    /\ UNCHANGED <<df_piezas, piezas_cols, formatos_user, uploaded_cantos, cantos_def, df_merge,
                   merge_cols, resumen>>

\* lines 164-186: without an accepted piece file the first tab processes nothing
SinPiezas ==
    /\ pc = "start"
    /\ df_piezas = <<>>
    /\ pc' = "tab2"
    /\ UNCHANGED <<df_piezas, piezas_cols, formatos_user, uploaded_cantos, cantos_def, df_cantos,
                   df_merge, merge_cols, resumen, cantos_resumen, error>>

\* lines 297-309: the second tab binds df_cantos to None or to the table read
CargaCantos ==
    /\ pc = "tab2"
    /\ df_cantos' = uploaded_cantos
    /\ cantos_def' = TRUE
    /\ pc' = "bloque"
    /\ UNCHANGED <<df_piezas, piezas_cols, formatos_user, uploaded_cantos, df_merge, merge_cols,
                   resumen, cantos_resumen, error>>

\* line 359: with df_piezas None the closing block is skipped and the script
\* ends.  (The block, 360-465, repeats the statements of 191-295; a run with a
\* piece table ends in the first tab and never gets here.)
SinProceso ==
    /\ pc = "bloque"
    /\ df_piezas = <<>>
    /\ pc' = "done"
    /\ UNCHANGED <<df_piezas, piezas_cols, formatos_user, uploaded_cantos, cantos_def, df_cantos,
                   df_merge, merge_cols, resumen, cantos_resumen, error>>

Next ==
    \/ Normaliza
    \/ Merge
    \/ ResuelveFormato
    \/ Areas
    \/ CheckVeta
    \/ ResumenMateriales
    \/ Cantos
    \/ SinPiezas
    \/ CargaCantos
    \/ SinProceso

Spec == Init /\ [][Next]_vars

\* ------------------------------------------------------------- properties
\* the run stopped at line 277, after the material summary
Fallo277 == pc = "error" /\ error = NameErrorCantos

\* stages a run with a piece table has passed
Combinado == pc \in {"formato", "areas", "veta", "resumen", "cantos", "error"}
Resuelto == pc \in {"areas", "veta", "resumen", "cantos"} \/ Fallo277
Resumido == pc = "cantos" \/ Fallo277
Terminado == pc \in {"done", "error"}

ConOverride(p) == ~IsNA(p.Largo_formato_mm) /\ ~IsNA(p.Ancho_formato_mm)

\* rows of df_merge that come from piece i
FilasDe(i) == {r \in 1..Len(df_merge) : df_merge[r].Nombre = df_piezas[i].Nombre}

\* catalog rows with the piece's key and thickness
Entradas(i) ==
    {j \in 1..Len(formatos_user) :
        /\ formatos_user[j].Material_key = normaliza_material(df_piezas[i].Material)
        /\ formatos_user[j].Espesor_mm = df_piezas[i].Espesor_mm}

TieneFormato(r, j) ==
    /\ df_merge[r].Largo_formato_mm = Some(formatos_user[j].Largo_formato_mm)
    /\ df_merge[r].Ancho_formato_mm = Some(formatos_user[j].Ancho_formato_mm)

\* rows of df_merge in the group of summary row g
Miembros(g) ==
    {r \in 1..Len(df_merge) :
        /\ df_merge[r].Material = resumen[g].Material
        /\ df_merge[r].Material_key = resumen[g].Material_key
        /\ df_merge[r].Espesor_mm = resumen[g].Espesor_mm
        /\ df_merge[r].Area_plancha_m2 = resumen[g].Area_plancha_m2}

RECURSIVE SumaDe(_, _)
SumaDe(f, S) ==
    IF S = {} THEN 0
    ELSE LET x == CHOOSE y \in S : TRUE IN f[x] + SumaDe(f, S \ {x})

\* exact area of a row and exact sheet area, in mm2
AreaMM2(r) == df_merge[r].Largo_mm * df_merge[r].Ancho_mm * df_merge[r].Cantidad
PlanchaMM2(r) == Val(df_merge[r].Largo_formato_mm) * Val(df_merge[r].Ancho_formato_mm)
TotalMM2(S) == SumaDe([r \in 1..Len(df_merge) |-> AreaMM2(r)], S)

\* nearest integer of a non-negative float64
Redondea(x) ==
    IF x.m = <<>> THEN 0
    ELSE IF x.e >= 0 THEN BToInt(BShl(x.m, x.e))
    ELSE IF -x.e > 60 THEN 0
    ELSE BToInt(BShr(BAdd(BShr(x.m, -x.e - 1), <<1>>), 1))

\* a float64 area in m2 read at the resolution of the inputs (1 mm2)
EnMM2(x) == Redondea(FMul(x, FFromInt(1000000)))
\* a float64 length in m read at the resolution of the inputs (1 mm)
EnMM(x) == Redondea(FMul(x, FFromInt(1000)))

\* C1: a piece that carries both override dimensions resolves to them, whatever
\* the catalog holds, also when the catalog has an entry for its key and thickness
C1_OverrideGana ==
    Resuelto =>
        \A i \in 1..Len(df_piezas) :
            ConOverride(df_piezas[i]) =>
                /\ FilasDe(i) # {}
                /\ \A r \in FilasDe(i) :
                      /\ df_merge[r].Largo_formato_mm = df_piezas[i].Largo_formato_mm
                      /\ df_merge[r].Ancho_formato_mm = df_piezas[i].Ancho_formato_mm

\* a run stopped at line 277 with an overridden piece whose key and thickness the catalog
\* also holds, with other dimensions
C1_Witness ==
    /\ Fallo277
    /\ \E i \in 1..Len(df_piezas) :
          /\ ConOverride(df_piezas[i])
          /\ \E j \in Entradas(i) :
                Some(formatos_user[j].Largo_formato_mm) # df_piezas[i].Largo_formato_mm
          /\ \E r \in FilasDe(i) : df_merge[r].Largo_formato_mm = Some(1500)

\* C2: for a piece without override the run completes resolution and the resolved
\* dimensions are those of a catalog entry with exactly its key and thickness,
\* or both missing when there is none
C2_SinOverrideCatalogo ==
    Terminado =>
        \A i \in 1..Len(df_piezas) :
            SinOverride(df_piezas[i]) =>
                /\ Resuelto
                /\ FilasDe(i) # {}
                /\ \A r \in FilasDe(i) :
                      IF Entradas(i) = {}
                      THEN IsNA(df_merge[r].Largo_formato_mm) /\ IsNA(df_merge[r].Ancho_formato_mm)
                      ELSE \E j \in Entradas(i) : TieneFormato(r, j)

\* C3: the enriched table has one row per piece, in the order of the pieces
C3_UnaFilaPorPieza ==
    Combinado =>
        /\ Len(df_merge) = Len(df_piezas)
        /\ \A i \in 1..Len(df_merge) : df_merge[i].Nombre = df_piezas[i].Nombre

\* C4: with a positive sheet area the sheet count is the least n whose n sheets
\* cover the total area of the group (areas taken exactly, in mm2)
C4_PlanchasMinimas ==
    Resumido =>
        \A g \in 1..Len(resumen) :
            FGt0(resumen[g].Area_plancha_m2) =>
                LET total == TotalMM2(Miembros(g))
                    plancha == PlanchaMM2(CHOOSE r \in Miembros(g) : TRUE)
                    n == resumen[g].Planchas_necesarias
                IN  n * plancha >= total /\ (n - 1) * plancha < total

\* a run in which the 0.1 m2 and the 0.2 m2 piece fill the 0.3 m2 sheet exactly
C4_Caso ==
    /\ Fallo277
    /\ \E g \in 1..Len(resumen) :
          /\ FGt0(resumen[g].Area_plancha_m2)
          /\ TotalMM2(Miembros(g)) = PlanchaMM2(CHOOSE r \in Miembros(g) : TRUE)

\* C5: a summary row whose sheet area is zero, negative or missing has 0 sheets
\* and a missing yield, and the summary step raises nothing: a run stops either
\* before the summary (KeyError of the resolution) or after it (line 277)
C5_PlanchaNoPositiva ==
    /\ pc = "error" =>
          \/ Fallo277 /\ resumen # <<>>
          \/ resumen = <<>> /\ ~("Largo_formato_mm_fmt" \in merge_cols
                                  /\ "Ancho_formato_mm_fmt" \in merge_cols)
    /\ Resumido =>
          \A g \in 1..Len(resumen) :
              ~FGt0(resumen[g].Area_plancha_m2) =>
                  /\ resumen[g].Planchas_necesarias = 0
                  /\ resumen[g].Rendimiento.cls \in {"nan", "na"}

\* a run stopped at line 277 whose summary has a row with a missing sheet area and a row
\* with a zero or negative one
C5_Witness ==
    /\ Fallo277
    /\ \E g \in 1..Len(resumen) :
          /\ ~FIsNum(resumen[g].Area_plancha_m2)
          /\ resumen[g].Planchas_necesarias = 0
    /\ \E g \in 1..Len(resumen) :
          /\ FIsNum(resumen[g].Area_plancha_m2)
          /\ ~FGt0(resumen[g].Area_plancha_m2)
          /\ resumen[g].Rendimiento.cls \in {"nan", "na"}

Verificado == pc \in {"resumen", "cantos"} \/ Fallo277

\* the grain check as a case analysis on the orientation read without case
VetaEsperada(row) ==
    LET o == StrUpper(row.OrientacionVeta)
        lf == row.Largo_formato_mm
        af == row.Ancho_formato_mm
        mayor == IF Val(lf) >= Val(af) THEN Val(lf) ELSE Val(af)
    IN  CASE o = S_LIBRE \/ IsNA(lf) \/ IsNA(af) -> MsgOK
          [] o = S_H /\ ~IsNA(lf) /\ ~IsNA(af) /\ row.Largo_mm > mayor -> MsgLargo
          [] o = S_V /\ ~IsNA(lf) /\ ~IsNA(af) /\ row.Ancho_mm > mayor -> MsgAncho
          [] OTHER -> MsgOK

\* C6: the grain check is OK for a free orientation or an unresolved format,
\* the length message exactly for H with length above the larger format side,
\* the width message exactly for V with width above it, OK otherwise
C6_CheckVeta ==
    Verificado =>
        \A r \in 1..Len(df_merge) : df_merge[r].Check_veta = VetaEsperada(df_merge[r])

\* a run stopped at line 277 with a piece longer than the shorter format side only
\* (accepted) is told apart from one longer than both (rejected)
C6_Witness ==
    /\ Fallo277
    /\ \E r \in 1..Len(df_merge) :
          /\ df_merge[r].Check_veta = MsgOK
          /\ StrUpper(df_merge[r].OrientacionVeta) = S_H
          /\ ~IsNA(df_merge[r].Largo_formato_mm)
          /\ df_merge[r].Largo_mm > Val(df_merge[r].Largo_formato_mm)
          /\ df_merge[r].Largo_mm <= Val(df_merge[r].Ancho_formato_mm)

\* a run stopped at line 277 that rejects a piece by its length
C6_WitnessLargo ==
    /\ Fallo277
    /\ \E r \in 1..Len(df_merge) : df_merge[r].Check_veta = MsgLargo

ClaveDe(x) ==
    <<x.Material, x.Material_key, x.Espesor_mm, x.Area_plancha_m2>>

\* C7: one summary row per distinct (Material, Material_key, Espesor_mm,
\* Area_plancha_m2) of the enriched rows, a missing sheet area being a key of
\* its own; each row totals the areas of its rows, so the totals add up to the
\* area of all rows (areas read at 1 mm2)
C7_ResumenAgrupa ==
    Resumido =>
        /\ \A g, h \in 1..Len(resumen) : ClaveDe(resumen[g]) = ClaveDe(resumen[h]) => g = h
        /\ {ClaveDe(resumen[g]) : g \in 1..Len(resumen)}
              = {ClaveDe(df_merge[r]) : r \in 1..Len(df_merge)}
        /\ \A g \in 1..Len(resumen) : EnMM2(resumen[g].Area_m2) = TotalMM2(Miembros(g))
        /\ SumaDe([g \in 1..Len(resumen) |-> EnMM2(resumen[g].Area_m2)], 1..Len(resumen))
              = TotalMM2(1..Len(df_merge))

\* a run stopped at line 277 with two rows of one material and thickness in different
\* summary rows because their sheet areas differ
C7_Witness ==
    /\ Fallo277
    /\ \E g, h \in 1..Len(resumen) :
          /\ resumen[g].Material = resumen[h].Material
          /\ resumen[g].Espesor_mm = resumen[h].Espesor_mm
          /\ resumen[g].Area_plancha_m2 # resumen[h].Area_plancha_m2
          /\ ~FIsNum(resumen[h].Area_plancha_m2) \/ FGt0(resumen[h].Area_plancha_m2)

\* a run stopped at line 277 with two rows in one summary row
C7_WitnessGrupo ==
    /\ Fallo277
    /\ \E g \in 1..Len(resumen) : Cardinality(Miembros(g)) >= 2

FilasCanto == IF uploaded_cantos = <<>> THEN <<>> ELSE uploaded_cantos[1]

LongitudMM(t) ==
    SumaDe([i \in 1..Len(FilasCanto) |-> FilasCanto[i].Longitud_mm * FilasCanto[i].Cantidad],
           {i \in 1..Len(FilasCanto) : FilasCanto[i].Tipo = t})

\* C8: at the end of a run the edge-band summary has one row per distinct Tipo
\* of the edge-band rows, whose total is the sum of Longitud_mm * Cantidad / 1000
\* of the rows of that Tipo (read at 1 mm); the example rows give A = 2.5 and
\* B = 2.0; no rows give an empty summary; the step raises nothing
C8_CantosSuma ==
    Terminado =>
        /\ ~Fallo277
        /\ \A g, h \in 1..Len(cantos_resumen) :
              cantos_resumen[g].Tipo = cantos_resumen[h].Tipo => g = h
        /\ {cantos_resumen[g].Tipo : g \in 1..Len(cantos_resumen)}
              = {FilasCanto[i].Tipo : i \in 1..Len(FilasCanto)}
        /\ \A g \in 1..Len(cantos_resumen) :
              EnMM(cantos_resumen[g].Metros_lineales) = LongitudMM(cantos_resumen[g].Tipo)
        /\ FilasCanto = CantosEjemplo =>
              cantos_resumen = <<[Tipo |-> S_A, Metros_lineales |-> FDiv(FFromInt(5), FFromInt(2))],
                                 [Tipo |-> S_B, Metros_lineales |-> FFromInt(2)]>>

\* a run on a piece table and the example edge-band rows, stopped at line 277
C8_Caso ==
    /\ Fallo277
    /\ uploaded_cantos = <<CantosEjemplo>>
    /\ cantos_resumen = <<>>

EsEscenario ==
    /\ Len(df_piezas) = 1
    /\ [df_piezas[1] EXCEPT !.Nombre = "", !.Material_key = <<>>] = PiezaBase
    /\ formatos_user = formato_default

ValoresEscenario(mm2) ==
    /\ Len(df_merge) = 1
    /\ df_merge[1].Largo_formato_mm = Some(2440)
    /\ df_merge[1].Ancho_formato_mm = Some(1830)
    /\ df_merge[1].Area_m2 = FDiv(FFromInt(mm2), FFromInt(1000000))
    /\ df_merge[1].Area_plancha_m2 = FDiv(FFromInt(4465200), FFromInt(1000000))
    /\ df_merge[1].Check_veta = MsgOK
    /\ Len(resumen) = 1
    /\ resumen[1].Planchas_necesarias = 1

\* C9: the run on the single piece 1829 x 1003 x 1 of MADECOR MUF BLANCO 15 mm,
\* grain H, without override, against the default catalog resolves 2440 x 1830
\* and yields area 1.834387 m2 (1834387 mm2), sheet 4.4652 m2, one sheet,
\* grain check OK
C9_Escenario ==
    (Terminado /\ EsEscenario) => (Resumido /\ ValoresEscenario(1834387))

\* the scenario given as the help tab gives it, in a table without override
\* columns: the run stopped in the format resolution
C9_Caso ==
    /\ EsEscenario
    /\ piezas_cols = {}
    /\ pc = "error"
    /\ error = "KeyError: 'Largo_formato_mm_fmt'"

\* the scenario in a table with (empty) override columns: the run gets to the
\* material summary with 2440 x 1830, area 1829 * 1003 = 1834487 mm2, sheet
\* 4.4652 m2, one sheet, grain check OK
EscenarioConColumnas ==
    (Resumido /\ EsEscenario) => ValoresEscenario(1829 * 1003)

UltimaEntrada(i) == CHOOSE j \in Entradas(i) : \A k \in Entradas(i) : k <= j

\* C10: with several catalog entries of one key and thickness, a piece without
\* override that matches them resolves to the dimensions of the last one
C10_UltimaGana ==
    Resuelto =>
        \A i \in 1..Len(df_piezas) :
            (SinOverride(df_piezas[i]) /\ Cardinality(Entradas(i)) >= 2) =>
                \A r \in FilasDe(i) : TieneFormato(r, UltimaEntrada(i))

\* C11: the run only reads the catalog: no step changes an entry of
\* formatos_user (key, thickness, format length, format width), also when a
\* key is not in canonical form
C11_CatalogoIntacto == [][formatos_user' = formatos_user]_vars

\* a run stopped at line 277 whose catalog had a key that was not in canonical form
\* (the piece resolves to that entry, whose key now reads MDF_RH)
C11_Caso ==
    /\ Fallo277
    /\ Len(formatos_user) = 1
    /\ formatos_user[1].Largo_formato_mm = 2000
    /\ formatos_user[1].Material_key = K_MDF_RH
====
